---- MODULE Spec2Model ----
(***************************************************************************)
(* Automata: execution-coordination layer.                                 *)
(*                                                                         *)
(* Spec         one run driven by the orchestrator (run consumer, task     *)
(*              consumer, poll loop) and a worker, with the REST           *)
(*              CancelRun handler and restarts of the orchestrator.        *)
(* SpecRestart  run consumer, task consumer and worker with restarts of    *)
(*              the orchestrator.                                          *)
(* SpecWorker   run consumer, task consumer and the worker with both of    *)
(*              its goroutines (tasks.ready consumer and poll loop).       *)
(* SpecFair     run consumer, task consumer and worker under weak          *)
(*              fairness; store and broker never fail.                     *)
(* SpecLoss     SpecFair in which a publish of task.completed may fail.    *)
(* SpecReadyLoss  SpecWorker in which a publish of task.ready may fail,    *)
(*              the worker's poll goroutine under weak fairness.           *)
(* SpecPoll     poll loop, task consumer and worker under weak fairness,   *)
(*              for a run whose run.pending event was lost.                *)
(* SpecRetry    SpecWorker for one-step flows with retry policies, the      *)
(*              server answering any status or not at all.                 *)
(* SpecSched    scheduler processes: leader election by advisory lock and  *)
(*              Tick / processSchedule against the store.                  *)
(* SpecReady    DAG.GetReadyNodes applied to the (completed, running) maps  *)
(*              a RunState can hold.                                       *)
(* SpecReadyAny DAG.GetReadyNodes applied to any (completed, running) maps. *)
(* SpecDag      Validate and BuildDAG applied to flow specs, as             *)
(*              RunState.Initialize applies them.                          *)
(***************************************************************************)
EXTENDS Naturals, Integers, Sequences, FiniteSets, Bags, TLC

(***************************************************************************)
(* Bounds of the model.                                                    *)
(***************************************************************************)
MaxTasks == 3
MaxRestarts == 1
MaxCancels == 1
MaxTime == 1
MaxConnDrops == 1
MaxBrokerDrops == 2
MaxDeliveries == 2
MaxAttempt == 6

Range(s) == {s[i] : i \in DOMAIN s}

(***************************************************************************)
(* domain.FlowSpec / domain.StepDef / domain.Branch.                       *)
(* condition is the rendered value of StepDef.Condition: "" (not set),     *)
(* "true" or "false".  maxAttempts and onStatus are Retry.MaxAttempts and   *)
(* Retry.OnStatus; maxAttempts = 0 with onStatus = {} stands for a nil      *)
(* RetryPolicy.                                                            *)
(***************************************************************************)
NoStep == [id |-> "", type |-> "", dependsOn |-> <<>>, condition |-> "",
           maxAttempts |-> 0, onStatus |-> {}, branches |-> <<>>]

StepDef(id, type, dependsOn, condition, maxAttempts) ==
    [id |-> id, type |-> type, dependsOn |-> dependsOn, condition |-> condition,
     maxAttempts |-> maxAttempts, onStatus |-> {}, branches |-> <<>>]

ParallelDef(id, dependsOn, condition, branches) ==
    [id |-> id, type |-> "parallel", dependsOn |-> dependsOn, condition |-> condition,
     maxAttempts |-> 0, onStatus |-> {}, branches |-> branches]

\* domain.RetryPolicy of a step: max_attempts and on_status.
RetryPolicy(step, maxAttempts, onStatus) ==
    [step EXCEPT !.maxAttempts = maxAttempts, !.onStatus = onStatus]

Branch(id, steps) == [id |-> id, steps |-> steps]

\* Two steps that depend on each other: accepted by Validate, rejected by
\* BuildDAG.
FlowCycle ==
    << StepDef("A", "http", <<"B">>, "", 0),
       StepDef("B", "http", <<"A">>, "", 0) >>

\* A step of a type that is not a step type: rejected by Validate.
FlowBadType == << StepDef("A", "shell", <<>>, "", 0) >>

\* Two independent steps.
FlowFork ==
    << StepDef("A", "http", <<>>, "", 0),
       StepDef("B", "delay", <<>>, "", 0) >>

\* The linear chain A -> B.
FlowChain ==
    << StepDef("A", "http", <<>>, "", 0),
       StepDef("B", "transform", <<"A">>, "", 0) >>

\* B's condition renders false, so B is skipped at dispatch.
FlowSkip ==
    << StepDef("A", "http", <<>>, "", 0),
       StepDef("B", "http", <<"A">>, "false", 0) >>

\* A's condition renders false, so A is skipped at dispatch; B waits for A.
FlowSkipFirst ==
    << StepDef("A", "http", <<>>, "false", 0),
       StepDef("B", "http", <<"A">>, "", 0) >>

\* A parallel step with one branch, followed by a step that depends on it.
FlowPar ==
    << ParallelDef("P", <<>>, "", << Branch("a", << StepDef("s1", "http", <<>>, "", 0) >>) >>),
       StepDef("E", "http", <<"P">>, "", 0) >>

\* The parallel + join scenario: start -> parallel{a:[s1,s2], b:[s1]} -> end.
FlowJoin ==
    << StepDef("start", "http", <<>>, "", 0),
       ParallelDef("par", <<"start">>, "",
           << Branch("a", << StepDef("s1", "http", <<>>, "", 0),
                             StepDef("s2", "delay", <<>>, "", 0) >>),
              Branch("b", << StepDef("s1", "http", <<>>, "", 0) >>) >>),
       StepDef("end", "http", <<"par">>, "", 0) >>

\* The diamond A -> {B, C} -> D.
FlowDiamond ==
    << StepDef("A", "http", <<>>, "", 0),
       StepDef("B", "http", <<"A">>, "", 0),
       StepDef("C", "http", <<"A">>, "", 0),
       StepDef("D", "http", <<"B", "C">>, "", 0) >>

\* One http step retried up to three times on HTTP 503.
FlowRetryOnStatus ==
    << RetryPolicy(StepDef("A", "http", <<>>, "", 0), 3, {503}) >>

Flows == {FlowFork, FlowChain, FlowSkip, FlowPar}

\* One-step flows: the policy above; a policy of two attempts without
\* on_status; a policy with on_status and no positive max_attempts; no policy.
RetryFlows ==
    { FlowRetryOnStatus,
      << RetryPolicy(StepDef("A", "http", <<>>, "", 0), 2, {}) >>,
      << RetryPolicy(StepDef("A", "http", <<>>, "", 0), 0, {503}) >>,
      << StepDef("A", "http", <<>>, "", 0) >> }
ReadyFlows == {FlowJoin, FlowDiamond, FlowPar}

(***************************************************************************)
(* engine.BuildDAG: nodes.                                                 *)
(***************************************************************************)
fullID(parallelID, branchID, stepID) == parallelID \o "." \o branchID \o "." \o stepID

joinID(parallelID) == parallelID \o ".join"

Node(id, step, isJoin, parallelID) ==
    [ID |-> id, Step |-> step, IsJoin |-> isJoin, ParallelID |-> parallelID]

\* addParallelNodes: one node per branch step, plus the virtual join node.
addParallelNodes(parallelStep) ==
    UNION { { Node(fullID(parallelStep.id, parallelStep.branches[b].id,
                          parallelStep.branches[b].steps[i].id),
                   parallelStep.branches[b].steps[i], FALSE, parallelStep.id) :
                i \in DOMAIN parallelStep.branches[b].steps } :
            b \in DOMAIN parallelStep.branches }
    \cup { Node(joinID(parallelStep.id), NoStep, TRUE, parallelStep.id) }

\* addNode: the step's own node and, for a parallel step, its nested nodes.
addNode(step) ==
    { Node(step.id, step, FALSE, "") }
    \cup (IF step.type = "parallel" THEN addParallelNodes(step) ELSE {})

Nodes(spec) == UNION { addNode(spec[i]) : i \in DOMAIN spec }

NodeIDs(spec) == { n.ID : n \in Nodes(spec) }

GetNode(spec, id) == CHOOSE n \in Nodes(spec) : n.ID = id

(***************************************************************************)
(* engine.BuildDAG: edges.  An edge is <<from, to>>.                       *)
(***************************************************************************)
\* linkDependencies resolves a depends_on id: the node of that id if there is
\* one, otherwise the join node "<id>.join".
resolveDep(ids, depID) ==
    IF depID \in ids THEN {depID}
    ELSE IF joinID(depID) \in ids THEN {joinID(depID)}
    ELSE {}

linkParallelDependencies(ids, p) ==
    UNION { LET br == p.branches[b]
                id(i) == fullID(p.id, br.id, br.steps[i].id)
            IN  UNION { ( (IF i = 1 THEN { <<p.id, id(i)>> }
                                    ELSE { <<id(i - 1), id(i)>> })
                          \cup { <<d, id(i)>> :
                                   d \in UNION { IF fullID(p.id, br.id, dep) \in ids
                                                 THEN { fullID(p.id, br.id, dep) }
                                                 ELSE IF dep \in ids THEN {dep} ELSE {} :
                                                 dep \in Range(br.steps[i].dependsOn) } }
                          \cup (IF i = Len(br.steps)
                                THEN { <<id(i), joinID(p.id)>> } ELSE {}) ) :
                        i \in DOMAIN br.steps } :
            b \in DOMAIN p.branches }

linkDependencies(ids, step) ==
    { <<d, step.id>> : d \in UNION { resolveDep(ids, dep) : dep \in Range(step.dependsOn) } }
    \cup (IF step.type = "parallel" THEN linkParallelDependencies(ids, step) ELSE {})

Edges(spec) == UNION { linkDependencies(NodeIDs(spec), spec[i]) : i \in DOMAIN spec }

\* Node.DependsOn, as the set of ids of the nodes it depends on.
DependsOn(spec, id) == { e[1] : e \in { e2 \in Edges(spec) : e2[2] = id } }

\* DAG.GetExecutableNodes: every node that is not a join.
GetExecutableNodes(spec) == { n.ID : n \in { m \in Nodes(spec) : ~m.IsJoin } }

JoinNodes(spec) == { n.ID : n \in { m \in Nodes(spec) : m.IsJoin } }

(***************************************************************************)
(* DAG.GetReadyNodes.  The Go function returns the ready nodes and, as a   *)
(* side effect on the map it was given, adds to completed every join node  *)
(* all of whose dependencies are completed.  No node depends on a join     *)
(* (resolveDep finds the parallel node first), so neither result depends   *)
(* on the iteration order of the node map.                                 *)
(***************************************************************************)
\* allDepsCompleted that is satisfied by one completed dependency.
someDepCompleted(spec, id, completed) ==
    DependsOn(spec, id) = {} \/ DependsOn(spec, id) \cap completed # {}

allDepsCompleted(spec, id, completed) == DependsOn(spec, id) \subseteq completed

ReadyNodes(spec, completed, running) ==
    { id \in GetExecutableNodes(spec) :
        /\ id \notin completed
        /\ id \notin running
        /\ allDepsCompleted(spec, id, completed) }

\* A join completion that does not look at the dependencies.
JoinsCompletedEager(spec, completed, running) ==
    { id \in JoinNodes(spec) : id \notin completed /\ id \notin running }

JoinsCompleted(spec, completed, running) ==
    { id \in JoinNodes(spec) :
        /\ id \notin completed
        /\ id \notin running
        /\ allDepsCompleted(spec, id, completed) }

GetReadyNodes(spec, completed, running) ==
    [ready |-> ReadyNodes(spec, completed, running),
     completed |-> completed \cup JoinsCompleted(spec, completed, running)]

(***************************************************************************)
(* engine.Validate.  stepIDs collects the ids of the top-level steps and   *)
(* the prefixed ids of the branch steps; join ids are not part of it.      *)
(* Validate is modelled by whether it returns nil.  Branch steps that are  *)
(* themselves parallel are checked for having branches, not recursed into. *)
(***************************************************************************)
validStepTypes == {"http", "delay", "transform", "parallel"}

\* The places of a spec that carry a step: <<i>> for a top-level step and
\* <<i, b, j>> for step j of branch b of the parallel step i.
StepPlaces(spec) ==
    { <<i>> : i \in DOMAIN spec }
    \cup UNION { UNION { { <<i, b, j>> : j \in DOMAIN spec[i].branches[b].steps } :
                         b \in DOMAIN spec[i].branches } :
                 i \in { k \in DOMAIN spec : spec[k].type = "parallel" } }

StepAt(spec, pl) ==
    IF Len(pl) = 1 THEN spec[pl[1]] ELSE spec[pl[1]].branches[pl[2]].steps[pl[3]]

\* The id under which ValidateStep sees the step: its own id at top level,
\* fullStepID inside a branch.
ValidatedID(spec, pl) ==
    IF Len(pl) = 1 THEN spec[pl[1]].id
    ELSE fullID(spec[pl[1]].id, spec[pl[1]].branches[pl[2]].id, StepAt(spec, pl).id)

stepIDs(spec) == { ValidatedID(spec, pl) : pl \in StepPlaces(spec) }

ValidateStep(spec, pl) ==
    LET step == StepAt(spec, pl)
        id == ValidatedID(spec, pl)
    IN  /\ id # ""
        /\ \A other \in StepPlaces(spec) : ValidatedID(spec, other) = id => other = pl
        /\ step.type \in validStepTypes
        /\ \A dep \in Range(step.dependsOn) : dep # id
        /\ step.type = "parallel" =>
              /\ step.branches # <<>>
              /\ \A b \in DOMAIN step.branches :
                    /\ step.branches[b].id # ""
                    /\ \A c \in DOMAIN step.branches :
                          step.branches[c].id = step.branches[b].id => c = b
                    /\ step.branches[b].steps # <<>>

validateDependencies(spec) ==
    \A pl \in StepPlaces(spec) :
        \A dep \in Range(StepAt(spec, pl).dependsOn) : dep \in stepIDs(spec)

Validate(spec) ==
    /\ spec # <<>>
    /\ \A pl \in StepPlaces(spec) : ValidateStep(spec, pl)
    /\ validateDependencies(spec)

(***************************************************************************)
(* engine.BuildDAG: topologicalSort and the result.                        *)
(***************************************************************************)
RECURSIVE Concat(_)
Concat(seqs) == IF seqs = <<>> THEN <<>> ELSE Head(seqs) \o Concat(Tail(seqs))

\* The addEdge(from, to) calls of BuildDAG's second pass, in the order they
\* are made; meant for a spec in which linkDependencies resolves every
\* top-level depends_on.
linkParallelCalls(ids, p) ==
    Concat([b \in DOMAIN p.branches |->
        LET br == p.branches[b]
            id(i) == fullID(p.id, br.id, br.steps[i].id)
        IN  Concat([i \in DOMAIN br.steps |->
                << IF i = 1 THEN <<p.id, id(i)>> ELSE <<id(i - 1), id(i)>> >>
                \o Concat([k \in DOMAIN br.steps[i].dependsOn |->
                       LET dep == br.steps[i].dependsOn[k]
                       IN  IF fullID(p.id, br.id, dep) \in ids
                           THEN << <<fullID(p.id, br.id, dep), id(i)>> >>
                           ELSE IF dep \in ids THEN << <<dep, id(i)>> >> ELSE <<>>])
                \o (IF i = Len(br.steps) THEN << <<id(i), joinID(p.id)>> >> ELSE <<>>)])])

linkCalls(ids, step) ==
    Concat([k \in DOMAIN step.dependsOn |->
               LET r == resolveDep(ids, step.dependsOn[k])
               IN  IF r = {} THEN <<>> ELSE << <<CHOOSE d \in r : TRUE, step.id>> >>])
    \o (IF step.type = "parallel" THEN linkParallelCalls(ids, step) ELSE <<>>)

addEdgeCalls(spec) == Concat([i \in DOMAIN spec |-> linkCalls(NodeIDs(spec), spec[i])])

\* addEdge: a call for a pair of nodes that are linked already adds nothing.
RECURSIVE addEdge(_, _)
addEdge(calls, linked) ==
    IF calls = <<>> THEN linked
    ELSE addEdge(Tail(calls),
                 IF \E i \in DOMAIN linked : linked[i] = Head(calls) THEN linked
                 ELSE Append(linked, Head(calls)))

\* Node.Dependents, in the order addEdge appended them, and Node.InDegree.
Dependents(links, id) ==
    LET out == SelectSeq(links, LAMBDA e : e[1] = id)
    IN  [i \in DOMAIN out |-> out[i][2]]

InDegree(links, id) == Len(SelectSeq(links, LAMBDA e : e[2] = id))

\* findRootNodes ranges over the node map, whose iteration order is not
\* fixed: RootNodes is the nodes of InDegree 0 in any order.
findRootNodes(spec) ==
    LET links == addEdge(addEdgeCalls(spec), <<>>)
        roots == { id \in NodeIDs(spec) : InDegree(links, id) = 0 }
    IN  { q \in [1..Cardinality(roots) -> roots] : \A i, j \in DOMAIN q : q[i] = q[j] => i = j }

\* A sort that puts every node into order, the roots first.
topologicalSortAll(spec, roots) ==
    LET rest == NodeIDs(spec) \ Range(roots)
    IN  roots \o (CHOOSE q \in [1..Cardinality(rest) -> rest] :
                     \A i, j \in DOMAIN q : q[i] = q[j] => i = j)

\* The loop of topologicalSort (Kahn): pop the head of the queue, append it to
\* order, decrement inDegree of its dependents and queue those that reach 0.
RECURSIVE kahn(_, _, _, _)
kahn(links, queue, order, inDegree) ==
    IF queue = <<>> THEN order
    ELSE LET node == Head(queue)
             deps == Dependents(links, node)
             dec == [id \in DOMAIN inDegree |->
                       IF id \in Range(deps) THEN inDegree[id] - 1 ELSE inDegree[id]]
         IN  kahn(links, Tail(queue) \o SelectSeq(deps, LAMBDA d : dec[d] = 0),
                  Append(order, node), dec)

\* topologicalSort: the order reached from RootNodes; the caller sees
\* ErrCyclicDependency when its length is not the number of nodes.
topologicalSort(spec, roots) ==
    LET links == addEdge(addEdgeCalls(spec), <<>>)
    IN  kahn(links, roots, <<>>, [id \in NodeIDs(spec) |-> InDegree(links, id)])

\* BuildDAG with RootNodes in the given order: linkDependencies fails on a
\* top-level depends_on that names neither a node nor a join; topologicalSort
\* fails when some node never gets into order.
BuildDAGFrom(spec, roots) ==
    IF \E i \in DOMAIN spec : \E dep \in Range(spec[i].dependsOn) :
           resolveDep(NodeIDs(spec), dep) = {}
    THEN [err |-> "ErrMissingDependency", Nodes |-> {}, Order |-> <<>>]
    ELSE LET order == topologicalSort(spec, roots)
         IN  IF Len(order) # Cardinality(NodeIDs(spec))
             THEN [err |-> "ErrCyclicDependency", Nodes |-> {}, Order |-> <<>>]
             ELSE [err |-> "", Nodes |-> NodeIDs(spec), Order |-> order]

\* BuildDAG for the callers that use the error and the node map only.
BuildDAG(spec) == BuildDAGFrom(spec, CHOOSE q \in findRootNodes(spec) : TRUE)

(***************************************************************************)
(* State.                                                                  *)
(***************************************************************************)
VARIABLES
    flow,             \* flow_versions: the FlowSpec of the run's version
    runStatus,        \* runs.status of the run
    runError,         \* runs row: the error column, as message prefix and details
    tasks,            \* tasks rows, in creation order; the task id is the index
    qRunsPending,     \* queue runs.pending: number of run.pending messages
    qTasksReady,      \* queue tasks.ready: task ids of the task.ready messages
    qTasksCompleted,  \* queue tasks.completed: bag of task.completed payloads
    activeRuns,       \* Orchestrator.activeRuns[run]: owner of the registered RunState
    rs,               \* the RunState object created by each orchestrator goroutine
    opc,              \* position of each orchestrator goroutine
    oref,             \* the RunState a goroutine works on
    ordy,             \* readySteps still to dispatch in dispatchReadySteps
    ocur,             \* node and task of the dispatchStep in progress
    omsg,             \* task.completed delivery held by the task consumer
    restarts,         \* orchestrator restarts so far
    wpc,              \* position of each worker goroutine
    wtask,            \* the *domain.Task a worker goroutine loaded
    apiPc,            \* position of the CancelRun handler
    cancels,          \* CancelRun requests so far
    started,          \* history: processTask invocations that moved the task to RUNNING
    published,        \* history: task.completed events published per task
    executions,       \* history: the Execute calls made for each task
    lateDispatch,     \* history: the task consumer began its handler after CANCELLED was stored
    lateFinal         \* history: the task consumer began its handler after completeRun stored
                      \* SUCCEEDED or FAILED

VARIABLES
    now,              \* wall clock, in cron ticks
    schedules,        \* schedules rows
    flowHasVersion,   \* whether the schedule's flow has a version
    runs,             \* runs rows created from schedules, id = index
    runsPublished,    \* run ids published as run.pending by the scheduler
    lockSession,      \* scheduler process whose pool connection holds advisory lock 424242
    hasLock,          \* main's hasLock flag of each scheduler process
    spc,              \* position of each scheduler process in its loop
    sbatch,           \* the schedules ListDue returned, still to process
    stime,            \* Tick's now
    connDrops         \* pool connections closed so far

VARIABLES
    rflow,            \* FlowSpec given to BuildDAG
    rcompleted,       \* completed map given to GetReadyNodes
    rrunning,         \* running map given to GetReadyNodes
    rready,           \* ids of the nodes GetReadyNodes returned
    rcalled,          \* GetReadyNodes has returned
    rvalid,           \* what Validate returned for rflow: "", "ok" or "error"
    rdag              \* what BuildDAG returned for rflow

VARIABLES
    connected,        \* Connection: the AMQP connection is open
    reconnectCh,      \* Connection.reconnectCh: signals buffered (capacity 1)
    cpc,              \* position of each Consumer goroutine in consume
    copen,            \* the deliveries channel of each Consumer is open
    ccur,             \* index in deliveries of the delivery a Consumer handles
    deliveries,       \* history: the deliveries taken and the Ack/Nack calls made
    brokerDrops       \* broker connection losses so far

VARIABLES
    bkPolicy,         \* *domain.RetryPolicy given to calculateBackoff
    bkAttempt,        \* attempt given to calculateBackoff
    bkDelay           \* the delay returned, in milliseconds; -1 before the call

VARIABLES
    muReaders,        \* goroutines holding RunState.mu for reading (RLock)
    muWriter,         \* the goroutine holding RunState.mu for writing, or "none"
    gpc,              \* position of each goroutine inside a RunState method
    gnode             \* the stepID argument of the method a goroutine is in

storeVars == <<flow, runStatus, runError, tasks>>
lockVars == <<muReaders, muWriter, gpc, gnode>>
mqVars == <<connected, reconnectCh, cpc, copen, ccur, deliveries, brokerDrops>>
backoffVars == <<bkPolicy, bkAttempt, bkDelay>>
schedVars == <<now, schedules, flowHasVersion, runs, runsPublished, lockSession, hasLock,
               spc, sbatch, stime, connDrops>>
readyVars == <<rflow, rcompleted, rrunning, rready, rcalled, rvalid, rdag>>
brokerVars == <<qRunsPending, qTasksReady, qTasksCompleted>>
orchVars == <<activeRuns, rs, opc, oref, ordy, ocur, omsg, restarts, lateDispatch, lateFinal>>
workerVars == <<wpc, wtask, started, published, executions>>
apiVars == <<apiPc, cancels>>

OThreads == {"run", "poll", "task"}
WThreads == {"consumer", "poll"}
TaskIDs == 1..MaxTasks

RunTerminal == {"SUCCEEDED", "FAILED", "CANCELLED"}
TaskTerminal == {"SUCCEEDED", "FAILED"}

\* RunStatus.IsTerminal / Run.IsFinished
IsFinished(status) == status \in RunTerminal

NoMsg == [task |-> 0, step |-> "", status |-> ""]
NoCur == [node |-> "", task |-> 0]
NoTask == [id |-> 0, step |-> "", type |-> "", status |-> "", attempt |-> 0]

(***************************************************************************)
(* orchestrator.RunState.                                                  *)
(***************************************************************************)
NewRunState(run) == [completed |-> {}, running |-> {}, failed |-> {}, run |-> run]

MarkStepRunning(s, stepID) == [s EXCEPT !.running = @ \cup {stepID}]

MarkStepCompleted(s, stepID) ==
    [s EXCEPT !.running = @ \ {stepID}, !.completed = @ \cup {stepID}]

MarkStepFailed(s, stepID) ==
    [s EXCEPT !.running = @ \ {stepID}, !.failed = @ \cup {stepID}]

\* IsComplete that also takes a running node for done.
IsCompleteOrRunning(spec, s) ==
    \A id \in GetExecutableNodes(spec) :
        id \in s.completed \/ id \in s.failed \/ id \in s.running

IsComplete(spec, s) ==
    \A id \in GetExecutableNodes(spec) : id \in s.completed \/ id \in s.failed

HasFailed(s) == s.failed # {}

\* RestoreFromTasks: SUCCEEDED -> completed, FAILED -> failed, RUNNING -> running,
\* QUEUED -> nothing.
RestoreFromTasks(s, ts) ==
    [s EXCEPT
        !.completed = @ \cup { ts[i].step : i \in { j \in DOMAIN ts : ts[j].status = "SUCCEEDED" } },
        !.failed    = @ \cup { ts[i].step : i \in { j \in DOMAIN ts : ts[j].status = "FAILED" } },
        !.running   = @ \cup { ts[i].step : i \in { j \in DOMAIN ts : ts[j].status = "RUNNING" } }]

\* RunState.GetReadySteps: DAG.GetReadyNodes on the state's own maps.
GetReadySteps(spec, s) ==
    LET r == GetReadyNodes(spec, s.completed, s.running)
    IN  [ready |-> r.ready, state |-> [s EXCEPT !.completed = r.completed]]

(***************************************************************************)
(* Store and broker primitives.                                            *)
(***************************************************************************)
\* The error column of a run row: the prefix of the message and what follows.
RunError(prefix, details) == [prefix |-> prefix, details |-> details]

NoError == RunError("", {})

\* An Initialize that accepts every spec.
InitializeNil(spec) == ""

\* RunState.Initialize: the error it returns, "" for nil.
Initialize(spec) ==
    IF ~Validate(spec) THEN "ErrInvalidFlowSpec"
    ELSE IF BuildDAG(spec).err # "" THEN "build DAG"
    ELSE ""

\* RunRepo.Update: UPDATE runs SET status = ... WHERE id = ...
RunRepoUpdate(stored, status) == status

\* TaskRepo.Update: UPDATE tasks SET attempt, status, ... WHERE id = ...
TaskRepoUpdate(ts, t) ==
    [ts EXCEPT ![t.id] = [@ EXCEPT !.status = t.status, !.attempt = t.attempt]]

\* TaskRepo.Create: INSERT INTO tasks; the table has no (run_id, step_id) constraint.
TaskRepoCreate(ts, stepID, type) ==
    Append(ts, [step |-> stepID, type |-> type, status |-> "QUEUED", attempt |-> 0])

Enqueue(bag, m) == bag (+) SetToBag({m})
Dequeue(bag, m) == bag (-) SetToBag({m})

(***************************************************************************)
(* Initial state: the API created the run as PENDING and tried to publish  *)
(* run.pending.                                                            *)
(***************************************************************************)
InitRun(fl, pending) ==
    /\ flow = fl
    /\ runStatus = "PENDING"
    /\ runError = NoError
    /\ tasks = <<>>
    /\ qRunsPending = pending
    /\ qTasksReady = {}
    /\ qTasksCompleted = EmptyBag
    /\ activeRuns = "none"
    /\ rs = [th \in OThreads |-> NewRunState("")]
    /\ opc = [th \in OThreads |-> "idle"]
    /\ oref = [th \in OThreads |-> th]
    /\ ordy = [th \in OThreads |-> {}]
    /\ ocur = [th \in OThreads |-> NoCur]
    /\ omsg = NoMsg
    /\ restarts = 0
    /\ wpc = [w \in WThreads |-> "idle"]
    /\ wtask = [w \in WThreads |-> NoTask]
    /\ apiPc = "idle"
    /\ cancels = 0
    /\ started = [t \in TaskIDs |-> 0]
    /\ published = [t \in TaskIDs |-> 0]
    /\ executions = [t \in TaskIDs |-> <<>>]
    /\ lateDispatch = FALSE
    /\ lateFinal = FALSE

(***************************************************************************)
(* Orchestrator: handleRunPending / poll -> processRun.                    *)
(***************************************************************************)
\* handleRunPending: a run.pending delivery is taken; isRunActive and a run
\* that is not PENDING end the handler with nil (ack); otherwise processRun
\* has loaded the run and built its RunState.
handleRunPending ==
    /\ opc["run"] = "idle"
    /\ qRunsPending > 0
    /\ qRunsPending' = qRunsPending - 1
    /\ IF activeRuns # "none" \/ runStatus # "PENDING"
       THEN UNCHANGED <<rs, opc>>
       ELSE /\ rs' = [rs EXCEPT !["run"] = NewRunState(runStatus)]
            /\ opc' = [opc EXCEPT !["run"] = "add"]
    /\ UNCHANGED <<storeVars, qTasksReady, qTasksCompleted, activeRuns, oref, ordy, ocur,
                   omsg, restarts, lateDispatch, lateFinal, workerVars, apiVars, schedVars, readyVars, mqVars, backoffVars, lockVars>>

\* A ListPending whose query selects the RUNNING runs.
ListRunning(status) == status = "RUNNING"

\* RunRepo.ListPending: WHERE status = 'PENDING'; whether the run is listed.
ListPending(status) == status = "PENDING"

\* poll: ListPending returned the run, it is not active, processRun loaded it.
poll ==
    /\ opc["poll"] = "idle"
    /\ ListPending(runStatus)
    /\ activeRuns = "none"
    /\ rs' = [rs EXCEPT !["poll"] = NewRunState(runStatus)]
    /\ opc' = [opc EXCEPT !["poll"] = "add"]
    /\ UNCHANGED <<storeVars, brokerVars, activeRuns, oref, ordy, ocur, omsg, restarts,
                   lateDispatch, lateFinal, workerVars, apiVars, schedVars, readyVars, mqVars, backoffVars, lockVars>>

\* An addActiveRun that registers the state whatever the map holds.
addActiveRunReplace(active, th) == [err |-> FALSE, active |-> th]

\* Orchestrator.addActiveRun under o.mu: ErrRunAlreadyActive when the map has
\* an entry for the run id, otherwise the state is stored.  A state is named
\* by the goroutine that built it.
addActiveRun(active, th) ==
    IF active # "none" THEN [err |-> TRUE, active |-> active]
    ELSE [err |-> FALSE, active |-> th]

\* processRun steps 4-8: NewRunState and Initialize, whose error makes failRun
\* store FAILED and return an error (the run.pending delivery is then
\* returned to its queue); addActiveRun (ErrRunAlreadyActive ends the
\* handler), run.MarkRunning, runRepo.Update, then GetReadySteps of
\* dispatchReadySteps.
processRun(th) ==
    /\ th \in {"run", "poll"}
    /\ opc[th] = "add"
    /\ IF Initialize(flow) # ""
       THEN /\ runStatus' = RunRepoUpdate(runStatus, "FAILED")
            /\ runError' = RunError("initialization failed", {Initialize(flow)})
            /\ qRunsPending' = IF th = "run" THEN qRunsPending + 1 ELSE qRunsPending
            /\ opc' = [opc EXCEPT ![th] = "idle"]
            /\ UNCHANGED <<activeRuns, rs, ordy>>
       ELSE IF addActiveRun(activeRuns, th).err
       THEN /\ opc' = [opc EXCEPT ![th] = "idle"]
            /\ UNCHANGED <<activeRuns, rs, ordy, runStatus, runError, qRunsPending>>
       ELSE LET r == GetReadySteps(flow, [rs[th] EXCEPT !.run = "RUNNING"])
            IN  /\ activeRuns' = addActiveRun(activeRuns, th).active
                /\ runStatus' = RunRepoUpdate(runStatus, "RUNNING")
                /\ runError' = NoError
                /\ rs' = [rs EXCEPT ![th] = r.state]
                /\ ordy' = [ordy EXCEPT ![th] = r.ready]
                /\ opc' = [opc EXCEPT ![th] = "dispatch"]
                /\ UNCHANGED qRunsPending
    /\ oref' = [oref EXCEPT ![th] = th]
    /\ UNCHANGED <<flow, tasks, qTasksReady, qTasksCompleted, ocur, omsg, restarts,
                   lateDispatch, lateFinal, workerVars, apiVars, schedVars, readyVars,
                   mqVars, backoffVars, lockVars>>

(***************************************************************************)
(* Orchestrator: dispatchReadySteps / dispatchStep.                        *)
(***************************************************************************)
\* dispatchStep up to taskRepo.Create: a join or a step whose condition is
\* false is marked completed and nothing else happens; otherwise the task
\* row is inserted as QUEUED.
dispatchStep(th, n) ==
    /\ opc[th] = "dispatch"
    /\ n \in ordy[th]
    /\ LET node == GetNode(flow, n)
       IN  IF node.IsJoin \/ node.Step.condition = "false"
           THEN /\ rs' = [rs EXCEPT ![oref[th]] = MarkStepCompleted(@, n)]
                /\ ordy' = [ordy EXCEPT ![th] = @ \ {n}]
                /\ UNCHANGED <<tasks, ocur, opc>>
           ELSE /\ Len(tasks) < MaxTasks
                /\ tasks' = TaskRepoCreate(tasks, n, node.Step.type)
                /\ ocur' = [ocur EXCEPT ![th] = [node |-> n, task |-> Len(tasks) + 1]]
                /\ opc' = [opc EXCEPT ![th] = "created"]
                /\ UNCHANGED <<rs, ordy>>
    /\ UNCHANGED <<flow, runStatus, runError, brokerVars, activeRuns, oref, omsg, restarts,
                   lateDispatch, lateFinal, workerVars, apiVars, schedVars, readyVars, mqVars, backoffVars, lockVars>>

\* dispatchStep after Create: MarkStepRunning, then PublishTaskReady, whose
\* failure is only logged.
publishTaskReady(th, ok) ==
    /\ opc[th] = "created"
    /\ rs' = [rs EXCEPT ![oref[th]] = MarkStepRunning(@, ocur[th].node)]
    /\ qTasksReady' = IF ok THEN qTasksReady \cup {ocur[th].task} ELSE qTasksReady
    /\ ordy' = [ordy EXCEPT ![th] = @ \ {ocur[th].node}]
    /\ ocur' = [ocur EXCEPT ![th] = NoCur]
    /\ opc' = [opc EXCEPT ![th] = "dispatch"]
    /\ UNCHANGED <<storeVars, qRunsPending, qTasksCompleted, activeRuns, oref, omsg,
                   restarts, lateDispatch, lateFinal, workerVars, apiVars, schedVars, readyVars, mqVars, backoffVars, lockVars>>

\* dispatchReadySteps returns: the handler ends (ack).
dispatchDone(th) ==
    /\ opc[th] = "dispatch"
    /\ ordy[th] = {}
    /\ opc' = [opc EXCEPT ![th] = "idle"]
    /\ omsg' = IF th = "task" THEN NoMsg ELSE omsg
    /\ lateDispatch' = IF th = "task" THEN FALSE ELSE lateDispatch
    /\ lateFinal' = IF th = "task" THEN FALSE ELSE lateFinal
    /\ UNCHANGED <<storeVars, brokerVars, activeRuns, rs, oref, ordy, ocur, restarts,
                   workerVars, apiVars, schedVars, readyVars, mqVars, backoffVars, lockVars>>

(***************************************************************************)
(* Orchestrator: handleTaskCompleted -> processTaskCompleted.              *)
(***************************************************************************)
\* A task.completed delivery is taken and getActiveRun looked up.
handleTaskCompleted(m) ==
    /\ opc["task"] = "idle"
    /\ BagIn(m, qTasksCompleted)
    /\ qTasksCompleted' = Dequeue(qTasksCompleted, m)
    /\ omsg' = m
    /\ lateDispatch' = (runStatus = "CANCELLED")
    /\ lateFinal' = (runStatus \in {"SUCCEEDED", "FAILED"})
    /\ IF activeRuns # "none"
       THEN /\ oref' = [oref EXCEPT !["task"] = activeRuns]
            /\ opc' = [opc EXCEPT !["task"] = "mark"]
       ELSE /\ opc' = [opc EXCEPT !["task"] = "restore"]
            /\ UNCHANGED oref
    /\ UNCHANGED <<storeVars, qRunsPending, qTasksReady, activeRuns, rs, ordy, ocur,
                   restarts, workerVars, apiVars, schedVars, readyVars, mqVars, backoffVars, lockVars>>

\* restoreRunState: a finished run gives nil and the handler ends; otherwise
\* the state is rebuilt from the run's tasks and registered, unless another
\* state was registered meanwhile, which is then used.
restoreRunState ==
    /\ opc["task"] = "restore"
    /\ IF IsFinished(runStatus)
       THEN /\ opc' = [opc EXCEPT !["task"] = "idle"]
            /\ omsg' = NoMsg
            /\ lateDispatch' = FALSE
            /\ lateFinal' = FALSE
            /\ UNCHANGED <<rs, activeRuns, oref>>
       ELSE /\ opc' = [opc EXCEPT !["task"] = "mark"]
            /\ UNCHANGED <<omsg, lateDispatch, lateFinal>>
            /\ IF addActiveRun(activeRuns, "task").err
               THEN /\ oref' = [oref EXCEPT !["task"] = activeRuns]
                    /\ UNCHANGED <<rs, activeRuns>>
               ELSE /\ rs' = [rs EXCEPT !["task"] =
                                  RestoreFromTasks(NewRunState(runStatus), tasks)]
                    /\ activeRuns' = addActiveRun(activeRuns, "task").active
                    /\ oref' = [oref EXCEPT !["task"] = "task"]
    /\ UNCHANGED <<storeVars, brokerVars, ordy, ocur, restarts, workerVars, apiVars, schedVars, readyVars, mqVars, backoffVars, lockVars>>

\* completeRun: MarkSucceeded / MarkFailed on state.Run, runRepo.Update,
\* removeActiveRun.
completeRunStatus(success) == IF success THEN "SUCCEEDED" ELSE "FAILED"

\* processTaskCompleted steps 2-5: the step is marked completed or failed;
\* HasFailed finalizes FAILED, IsComplete finalizes SUCCEEDED, otherwise
\* dispatchReadySteps starts.
processTaskCompleted ==
    /\ opc["task"] = "mark"
    /\ LET o == oref["task"]
           s == IF omsg.status = "SUCCEEDED"
                THEN MarkStepCompleted(rs[o], omsg.step)
                ELSE MarkStepFailed(rs[o], omsg.step)
       IN  IF HasFailed(s) \/ IsComplete(flow, s)
           THEN LET status == completeRunStatus(~HasFailed(s))
                IN  /\ rs' = [rs EXCEPT ![o] = [s EXCEPT !.run = status]]
                    /\ runStatus' = RunRepoUpdate(runStatus, status)
                    /\ runError' = IF HasFailed(s) THEN RunError("steps failed", s.failed)
                                   ELSE NoError
                    /\ activeRuns' = "none"
                    /\ opc' = [opc EXCEPT !["task"] = "idle"]
                    /\ omsg' = NoMsg
                    /\ lateDispatch' = FALSE
                    /\ lateFinal' = FALSE
                    /\ UNCHANGED ordy
           ELSE LET r == GetReadySteps(flow, s)
                IN  /\ rs' = [rs EXCEPT ![o] = r.state]
                    /\ ordy' = [ordy EXCEPT !["task"] = r.ready]
                    /\ opc' = [opc EXCEPT !["task"] = "dispatch"]
                    /\ UNCHANGED <<runStatus, runError, activeRuns, omsg, lateDispatch, lateFinal>>
    /\ UNCHANGED <<flow, tasks, brokerVars, oref, ocur, restarts, workerVars, apiVars, schedVars, readyVars, mqVars, backoffVars, lockVars>>

\* The orchestrator process stops and starts again: its memory is lost and
\* the deliveries it had not acknowledged return to their queues.
orchestratorRestart ==
    /\ restarts < MaxRestarts
    /\ runStatus # "PENDING" \/ opc # [th \in OThreads |-> "idle"]
    /\ restarts' = restarts + 1
    /\ activeRuns' = "none"
    /\ rs' = [th \in OThreads |-> NewRunState("")]
    /\ opc' = [th \in OThreads |-> "idle"]
    /\ oref' = [th \in OThreads |-> th]
    /\ ordy' = [th \in OThreads |-> {}]
    /\ ocur' = [th \in OThreads |-> NoCur]
    /\ omsg' = NoMsg
    /\ lateDispatch' = FALSE
    /\ lateFinal' = FALSE
    /\ qRunsPending' = IF opc["run"] # "idle" THEN qRunsPending + 1 ELSE qRunsPending
    /\ qTasksCompleted' = IF opc["task"] # "idle" THEN Enqueue(qTasksCompleted, omsg)
                          ELSE qTasksCompleted
    /\ UNCHANGED <<storeVars, qTasksReady, workerVars, apiVars, schedVars, readyVars, mqVars, backoffVars, lockVars>>

(***************************************************************************)
(* Worker: handleTaskReady / poll -> processTask.                          *)
(***************************************************************************)
\* worker.NewRegistry: the step types that have an executor.
NewRegistry == {"http", "delay", "transform"}

\* domain.Task methods on the worker's copy of the row.
MarkRunning(t) == [t EXCEPT !.status = "RUNNING", !.attempt = @ + 1]
MarkSucceeded(t) == [t EXCEPT !.status = "SUCCEEDED"]
MarkFailed(t) == [t EXCEPT !.status = "FAILED"]
ResetForRetry(t) == [t EXCEPT !.status = "QUEUED"]
CanRetry(t, maxAttempts) == t.attempt < maxAttempts

\* A nil *domain.RetryPolicy.
NoPolicy == [isNil |-> TRUE, MaxAttempts |-> 0, OnStatus |-> {}]

\* getRetryPolicy / findStepDef: the retry policy of the task's step, nil when
\* the step has none.
getRetryPolicy(spec, stepID) ==
    IF stepID \in NodeIDs(spec) /\ ~GetNode(spec, stepID).IsJoin
    THEN LET step == GetNode(spec, stepID).Step
         IN  IF step.maxAttempts = 0 /\ step.onStatus = {}
             THEN NoPolicy
             ELSE [isNil |-> FALSE, MaxAttempts |-> step.maxAttempts,
                   OnStatus |-> step.onStatus]
    ELSE NoPolicy

\* executeWithRetry: maxAttempts is 1 unless the policy gives a positive value.
effectiveMaxAttempts(policy) ==
    IF ~policy.isNil /\ policy.MaxAttempts > 0 THEN policy.MaxAttempts ELSE 1

\* What the HTTP server answers: a status code, or 0 when there is no
\* response (client.Do fails).
Responses == {0, 200, 500, 503}

\* Executor.Execute.  HTTPExecutor: no response is an infrastructure error
\* (nil result); a response gives outputs with status_code, and a logical
\* error when the code is >= 400.  DelayExecutor and TransformExecutor
\* return outputs without status_code and no error.
Execute(type, resp) ==
    IF type = "http"
    THEN IF resp = 0
         THEN [execErr |-> TRUE, hasOutputs |-> FALSE, hasStatusCode |-> FALSE,
               statusCode |-> 0, Error |-> FALSE]
         ELSE [execErr |-> FALSE, hasOutputs |-> TRUE, hasStatusCode |-> TRUE,
               statusCode |-> resp, Error |-> resp >= 400]
    ELSE [execErr |-> FALSE, hasOutputs |-> TRUE, hasStatusCode |-> FALSE,
          statusCode |-> 0, Error |-> FALSE]

\* shouldRetry that retries every logical error whenever there is a policy.
shouldRetryAnyStatus(result, execErr, policy) ==
    IF execErr THEN TRUE ELSE ~policy.isNil

\* shouldRetry: an infrastructure error always; no policy never; with
\* outputs and on_status, iff status_code is listed; otherwise yes.
shouldRetry(result, execErr, policy) ==
    IF execErr THEN TRUE
    ELSE IF policy.isNil THEN FALSE
    ELSE IF result.hasOutputs /\ policy.OnStatus # {}
         THEN result.hasStatusCode /\ result.statusCode \in policy.OnStatus
    ELSE TRUE

GetByID(ts, id) ==
    [id |-> id, step |-> ts[id].step, type |-> ts[id].type,
     status |-> ts[id].status, attempt |-> ts[id].attempt]

\* handleTaskReady: a task.ready delivery is taken and processTask loads the
\* task; ErrTaskNotQueued ends the handler with nil (ack).
handleTaskReady(id) ==
    /\ wpc["consumer"] = "idle"
    /\ id \in qTasksReady
    /\ qTasksReady' = qTasksReady \ {id}
    /\ IF tasks[id].status # "QUEUED"
       THEN UNCHANGED <<wpc, wtask>>
       ELSE /\ wtask' = [wtask EXCEPT !["consumer"] = GetByID(tasks, id)]
            /\ wpc' = [wpc EXCEPT !["consumer"] = "loaded"]
    /\ UNCHANGED <<storeVars, qRunsPending, qTasksCompleted, orchVars, started, published,
                   executions, apiVars, schedVars, readyVars, mqVars, backoffVars, lockVars>>

\* A ListQueued whose query selects no task.
ListQueuedNone(ts, id) == FALSE

\* A ListQueued whose query has no condition on the status.
ListQueuedAll(ts, id) == id \in DOMAIN ts

\* TaskRepo.ListQueued: WHERE status = 'QUEUED'; whether the task is listed.
ListQueued(ts, id) == id \in DOMAIN ts /\ ts[id].status = "QUEUED"

\* Worker.poll: ListQueued returned the task and processTask loaded it.
workerPoll(id) ==
    /\ wpc["poll"] = "idle"
    /\ ListQueued(tasks, id)
    /\ wtask' = [wtask EXCEPT !["poll"] = GetByID(tasks, id)]
    /\ wpc' = [wpc EXCEPT !["poll"] = "loaded"]
    /\ UNCHANGED <<storeVars, brokerVars, orchVars, started, published, executions, apiVars,
                   schedVars, readyVars, mqVars, backoffVars, lockVars>>

\* processTask step 3: task.MarkRunning, taskRepo.Update.
processTaskStart(w) ==
    /\ wpc[w] = "loaded"
    /\ LET t == MarkRunning(wtask[w])
       IN  /\ wtask' = [wtask EXCEPT ![w] = t]
           /\ tasks' = TaskRepoUpdate(tasks, t)
           /\ started' = [started EXCEPT ![t.id] = @ + 1]
    /\ wpc' = [wpc EXCEPT ![w] = "running"]
    /\ UNCHANGED <<flow, runStatus, runError, brokerVars, orchVars, published, executions, apiVars,
                   schedVars, readyVars, mqVars, backoffVars, lockVars>>

\* A payload that announces SUCCEEDED whatever the task's status is.
TaskCompletedPayloadSucceeded(t) == [task |-> t.id, step |-> t.step, status |-> "SUCCEEDED"]

\* publishCompletion: the payload of task.completed.
TaskCompletedPayload(t) == [task |-> t.id, step |-> t.step, status |-> t.status]

\* One round of executeWithRetry followed, when the loop ends, by steps 6 of
\* processTask.  resp is what the server answers to this attempt; a type
\* without executor is an error without any attempt.  A failed attempt that
\* may be retried persists the task as RUNNING with the next attempt number
\* and loops.
executeWithRetry(w, resp, published_ok) ==
    /\ wpc[w] = "running"
    /\ LET t == wtask[w]
           policy == getRetryPolicy(flow, t.step)
           hasExecutor == t.type \in NewRegistry
           result == Execute(t.type, resp)
           ok == hasExecutor /\ ~result.execErr /\ ~result.Error
           retry == /\ hasExecutor
                    /\ ~ok
                    /\ CanRetry(t, effectiveMaxAttempts(policy))
                    /\ shouldRetry(result, result.execErr, policy)
       IN  /\ executions' =
                 IF hasExecutor
                 THEN [executions EXCEPT ![t.id] =
                          Append(@, [attempt |-> t.attempt, resp |-> resp])]
                 ELSE executions
           /\ IF retry
              THEN LET t2 == MarkRunning(ResetForRetry(t))
                   IN  /\ wtask' = [wtask EXCEPT ![w] = t2]
                       /\ tasks' = TaskRepoUpdate(tasks, t2)
                       /\ UNCHANGED <<wpc, qTasksCompleted, published>>
              ELSE LET t2 == IF ok THEN MarkSucceeded(t) ELSE MarkFailed(t)
                   IN  /\ tasks' = TaskRepoUpdate(tasks, t2)
                       /\ wtask' = [wtask EXCEPT ![w] = NoTask]
                       /\ wpc' = [wpc EXCEPT ![w] = "idle"]
                       /\ IF published_ok
                          THEN /\ qTasksCompleted' =
                                      Enqueue(qTasksCompleted, TaskCompletedPayload(t2))
                               /\ published' = [published EXCEPT ![t.id] = @ + 1]
                          ELSE UNCHANGED <<qTasksCompleted, published>>
    /\ UNCHANGED <<flow, runStatus, runError, qRunsPending, qTasksReady, orchVars, started, apiVars, schedVars, readyVars, mqVars, backoffVars, lockVars>>

\* The worker process stops between the Update that persists RUNNING and
\* the Update that persists the outcome (a crash; or a shutdown, whose
\* cancelled context ends executeWithRetry at ctx.Done() and fails the last
\* Update), and a worker starts again: what the goroutines held in memory is
\* gone, the rows stay as they are, and the broker redelivers the task.ready
\* message whose handler had not returned.
workerStop ==
    /\ \E w \in WThreads : wpc[w] # "idle"
    /\ qTasksReady' =
          IF wpc["consumer"] # "idle"
          THEN qTasksReady \cup {wtask["consumer"].id}
          ELSE qTasksReady
    /\ wpc' = [w \in WThreads |-> "idle"]
    /\ wtask' = [w \in WThreads |-> NoTask]
    /\ UNCHANGED <<storeVars, qRunsPending, qTasksCompleted, orchVars, started, published,
                   executions, apiVars, schedVars, readyVars, mqVars, backoffVars, lockVars>>

(***************************************************************************)
(* API: CancelRun.                                                         *)
(***************************************************************************)
\* GetByID and the IsFinished check; a finished run is answered with 409.
CancelRunLoad ==
    /\ apiPc = "idle"
    /\ cancels < MaxCancels
    /\ cancels' = cancels + 1
    /\ apiPc' = IF IsFinished(runStatus) THEN "idle" ELSE "loaded"
    /\ UNCHANGED <<storeVars, brokerVars, orchVars, workerVars, schedVars, readyVars, mqVars, backoffVars, lockVars>>

\* run.MarkCancelled and runRepo.Update.
CancelRun ==
    /\ apiPc = "loaded"
    /\ runStatus' = RunRepoUpdate(runStatus, "CANCELLED")
    /\ runError' = NoError
    /\ apiPc' = "idle"
    /\ UNCHANGED <<flow, tasks, brokerVars, orchVars, workerVars, cancels, schedVars, readyVars, mqVars, backoffVars, lockVars>>

(***************************************************************************)
(* Scheduler: schedules, CalculateNextDue.                                 *)
(***************************************************************************)
SchedIDs == {1, 2}
SchedProcs == {"s1", "s2"}

\* domain.Schedule
IsCron(sched) == sched.cronExpr # ""
IsInterval(sched) == sched.cronExpr = "" /\ sched.intervalSec > 0

\* cronParser.Parse: "*/n" is every n-th tick; anything else does not parse.
cronParser(expr) ==
    CASE expr = "*/1" -> [ok |-> TRUE, every |-> 1]
      [] expr = "*/2" -> [ok |-> TRUE, every |-> 2]
      [] OTHER -> [ok |-> FALSE, every |-> 0]

\* A cron schedule whose Next returns from itself when from is an activation.
calculateNextCronInclusive(expr, from) ==
    LET c == cronParser(expr)
    IN  IF c.ok THEN [ok |-> TRUE, t |-> ((from + c.every - 1) \div c.every) * c.every]
        ELSE [ok |-> FALSE, t |-> 0]

\* calculateNextCron: the first activation strictly after from.
calculateNextCron(expr, from) ==
    LET c == cronParser(expr)
    IN  IF c.ok THEN [ok |-> TRUE, t |-> ((from \div c.every) + 1) * c.every]
        ELSE [ok |-> FALSE, t |-> 0]

calculateNextInterval(intervalSec, from) == from + intervalSec

CalculateNextDue(sched, from) ==
    IF IsCron(sched) THEN calculateNextCron(sched.cronExpr, from)
    ELSE IF IsInterval(sched) THEN [ok |-> TRUE, t |-> calculateNextInterval(sched.intervalSec, from)]
    ELSE [ok |-> FALSE, t |-> 0]

\* processSchedule step 2: "{schedule_id}_{next_due_at_unix}".
idempKey(sched) == <<sched.id, sched.nextDueAt>>

\* RunRepo.GetByIdempotencyKey: ids of the rows with that (flow_id, key).
GetByIdempotencyKey(rows, flowID, key) ==
    { i \in DOMAIN rows : rows[i].flow = flowID /\ rows[i].key = key }

\* RunRepo.Create on a runs table without the unique constraint.
RunRepoCreateUnconstrained(rows, run) == TRUE

\* RunRepo.Create under "unique (flow_id, idempotency_key)": the insert is
\* refused when a row with the same flow and key exists.
RunRepoCreateOk(rows, run) == GetByIdempotencyKey(rows, run.flow, run.key) = {}

\* ScheduleRepo.ListDue: enabled schedules with next_due_at <= now.
ListDue(rows, t) == { id \in SchedIDs : rows[id].enabled /\ rows[id].nextDueAt <= t }

\* ORDER BY next_due_at ASC: the orders of a set of due schedules.
DueOrders(rows, due) ==
    { q \in UNION { [1..n -> due] : n \in {Cardinality(due)} } :
        /\ \A i, j \in DOMAIN q : i # j => q[i] # q[j]
        /\ \A i, j \in DOMAIN q : i < j => rows[q[i]].nextDueAt <= rows[q[j]].nextDueAt }

\* Schedule.RecordRun
RecordRun(sched, runID, nextDue, at) ==
    [sched EXCEPT !.lastRunID = runID, !.lastRunAt = at, !.nextDueAt = nextDue]

NoSched == [id |-> 0, flow |-> 0, cronExpr |-> "", intervalSec |-> 0, enabled |-> FALSE,
            nextDueAt |-> 0, lastRunID |-> 0, lastRunAt |-> 0]

Schedule(id, cronExpr, intervalSec, nextDueAt) ==
    [id |-> id, flow |-> id, cronExpr |-> cronExpr, intervalSec |-> intervalSec,
     enabled |-> TRUE, nextDueAt |-> nextDueAt, lastRunID |-> 0, lastRunAt |-> 0]

(***************************************************************************)
(* Scheduler: the leader loop of main and Scheduler.Tick.                  *)
(***************************************************************************)
\* One ticker iteration up to ListDue: a process without the lock tries
\* pg_try_advisory_lock and skips the tick when it fails; a process whose
\* hasLock is set goes straight to Tick.
tick(p) ==
    /\ spc[p] = "idle"
    /\ LET got == hasLock[p] \/ lockSession = "none"
       IN  /\ hasLock' = [hasLock EXCEPT ![p] = got]
           /\ lockSession' = IF ~hasLock[p] /\ got THEN p ELSE lockSession
           /\ IF got /\ ListDue(schedules, now) # {}
              THEN /\ \E q \in DueOrders(schedules, ListDue(schedules, now)) :
                         sbatch' = [sbatch EXCEPT ![p] = [i \in DOMAIN q |-> schedules[q[i]]]]
                   /\ stime' = [stime EXCEPT ![p] = now]
                   /\ spc' = [spc EXCEPT ![p] = "process"]
              ELSE UNCHANGED <<sbatch, stime, spc>>
    /\ UNCHANGED <<now, schedules, flowHasVersion, runs, runsPublished, connDrops>>
    /\ UNCHANGED <<storeVars, brokerVars, orchVars, workerVars, apiVars, readyVars, mqVars, backoffVars, lockVars>>

\* A flow repository in which every flow has a version.
GetLatestVersionAny(versions, flowID) == TRUE

\* FlowRepo.GetLatestVersion, by whether it finds a version (ErrNotFound
\* otherwise).
GetLatestVersion(versions, flowID) == versions[flowID]

\* A loop that returns on the first schedule whose processing failed.
returnOnError(batch, err) == IF err THEN <<>> ELSE Tail(batch)

\* The loop of Tick after processSchedule returned for the first schedule of
\* the batch: an error is logged and the loop continues with the next one.
continue(batch, err) == Tail(batch)

\* processSchedule steps 5-7 for a run id: CalculateNextDue, RecordRun and
\* scheduleRepo.Update, whose failure is an error of this schedule only.
updateSchedule(rows, sched, runID, at, updateOk) ==
    LET next == CalculateNextDue(sched, at)
    IN  IF next.ok /\ updateOk
        THEN [rows EXCEPT ![sched.id] = RecordRun(sched, runID, next.t, now)]
        ELSE rows

\* processSchedule steps 1-3 for the first schedule of the batch: a flow
\* without version is skipped; an existing run with the key is reused and the
\* schedule updated; otherwise the run is about to be created.
processSchedule(p, updateOk) ==
    /\ spc[p] = "process"
    /\ sbatch[p] # <<>>
    /\ LET sched == Head(sbatch[p])
           existing == GetByIdempotencyKey(runs, sched.flow, idempKey(sched))
       IN  IF ~GetLatestVersion(flowHasVersion, sched.flow)
           THEN /\ sbatch' = [sbatch EXCEPT ![p] = continue(@, FALSE)]
                /\ UNCHANGED <<schedules, spc>>
           ELSE IF existing # {}
           THEN /\ schedules' = updateSchedule(schedules, sched, CHOOSE i \in existing : TRUE,
                                               stime[p], updateOk)
                /\ sbatch' = [sbatch EXCEPT ![p] =
                                 continue(@, CalculateNextDue(sched, stime[p]).ok /\ ~updateOk)]
                /\ UNCHANGED spc
           ELSE /\ spc' = [spc EXCEPT ![p] = "create"]
                /\ UNCHANGED <<schedules, sbatch>>
    /\ UNCHANGED <<now, flowHasVersion, runs, runsPublished, lockSession, hasLock, stime,
                   connDrops>>
    /\ UNCHANGED <<storeVars, brokerVars, orchVars, workerVars, apiVars, readyVars, mqVars, backoffVars, lockVars>>

\* processSchedule steps 4-7: runRepo.Create (an error ends this schedule),
\* then the schedule update and, when that succeeded, PublishRunPending.
createRun(p, updateOk, publishOk) ==
    /\ spc[p] = "create"
    /\ LET sched == Head(sbatch[p])
           run == [flow |-> sched.flow, key |-> idempKey(sched),
                   sched |-> sched.id, due |-> sched.nextDueAt, createdAt |-> stime[p]]
           next == CalculateNextDue(sched, stime[p])
       IN  IF ~RunRepoCreateOk(runs, run)
           THEN /\ sbatch' = [sbatch EXCEPT ![p] = continue(@, TRUE)]
                /\ UNCHANGED <<runs, schedules, runsPublished>>
           ELSE /\ runs' = Append(runs, run)
                /\ schedules' = updateSchedule(schedules, sched, Len(runs) + 1, stime[p], updateOk)
                /\ runsPublished' = IF next.ok /\ updateOk /\ publishOk
                                    THEN runsPublished \cup {Len(runs) + 1}
                                    ELSE runsPublished
                /\ sbatch' = [sbatch EXCEPT ![p] = continue(@, next.ok /\ ~updateOk)]
    /\ spc' = [spc EXCEPT ![p] = "process"]
    /\ UNCHANGED <<now, flowHasVersion, lockSession, hasLock, stime, connDrops>>
    /\ UNCHANGED <<storeVars, brokerVars, orchVars, workerVars, apiVars, readyVars, mqVars, backoffVars, lockVars>>

\* Tick returns when the batch is exhausted.
tickDone(p) ==
    /\ spc[p] = "process"
    /\ sbatch[p] = <<>>
    /\ spc' = [spc EXCEPT ![p] = "idle"]
    /\ UNCHANGED <<now, schedules, flowHasVersion, runs, runsPublished, lockSession, hasLock,
                   sbatch, stime, connDrops>>
    /\ UNCHANGED <<storeVars, brokerVars, orchVars, workerVars, apiVars, readyVars, mqVars, backoffVars, lockVars>>

\* The pool closes the connection whose session holds the advisory lock
\* (connection lifetime, health check, server restart): the server releases
\* the lock; the process's hasLock flag is not touched.
connClosed(p) ==
    /\ connDrops < MaxConnDrops
    /\ lockSession = p
    /\ lockSession' = "none"
    /\ connDrops' = connDrops + 1
    /\ UNCHANGED <<now, schedules, flowHasVersion, runs, runsPublished, hasLock, spc, sbatch,
                   stime>>
    /\ UNCHANGED <<storeVars, brokerVars, orchVars, workerVars, apiVars, readyVars, mqVars, backoffVars, lockVars>>

\* Time passes.
clock ==
    /\ now < MaxTime
    /\ now' = now + 1
    /\ UNCHANGED <<schedules, flowHasVersion, runs, runsPublished, lockSession, hasLock, spc,
                   sbatch, stime, connDrops>>
    /\ UNCHANGED <<storeVars, brokerVars, orchVars, workerVars, apiVars, readyVars, mqVars, backoffVars, lockVars>>

(***************************************************************************)
(* DAG.GetReadyNodes as a step on given maps.                              *)
(***************************************************************************)
getReadyNodes ==
    /\ ~rcalled
    /\ LET r == GetReadyNodes(rflow, rcompleted, rrunning)
       IN  /\ rready' = r.ready
           /\ rcompleted' = r.completed
    /\ rcalled' = TRUE
    /\ UNCHANGED <<rflow, rrunning, rvalid, rdag>>
    /\ UNCHANGED <<storeVars, brokerVars, orchVars, workerVars, apiVars, schedVars,
                   mqVars, backoffVars, lockVars>>

\* No DAG built yet.
NoDAG == [err |-> "none", Nodes |-> {}, Order |-> <<>>]

\* RunState.Initialize step 1: engine.Validate(spec).
validate ==
    /\ rvalid = ""
    /\ rvalid' = IF Validate(rflow) THEN "ok" ELSE "error"
    /\ UNCHANGED <<rflow, rcompleted, rrunning, rready, rcalled, rdag>>
    /\ UNCHANGED <<storeVars, brokerVars, orchVars, workerVars, apiVars, schedVars,
                   mqVars, backoffVars, lockVars>>

\* RunState.Initialize step 2: engine.BuildDAG(spec), reached when Validate
\* returned nil.
buildDAG ==
    /\ rvalid = "ok"
    /\ rdag = NoDAG
    /\ \E roots \in findRootNodes(rflow) : rdag' = BuildDAGFrom(rflow, roots)
    /\ UNCHANGED <<rflow, rcompleted, rrunning, rready, rcalled, rvalid>>
    /\ UNCHANGED <<storeVars, brokerVars, orchVars, workerVars, apiVars, schedVars,
                   mqVars, backoffVars, lockVars>>

\* The maps a RunState can hold: a completed or running executable node has
\* all its dependencies completed, and a join is completed only with them.
Closed(spec, completed, running) ==
    /\ \A id \in completed \cup running : DependsOn(spec, id) \subseteq completed
    /\ running \subseteq GetExecutableNodes(spec)

(***************************************************************************)
(* mq: Connection and Consumer.                                            *)
(***************************************************************************)
Consumers == {"runs.pending", "tasks.completed"}

NoEvent == [runActive |-> FALSE, runFound |-> FALSE, runStatus |-> "",
            taskFound |-> FALSE, taskStatus |-> ""]

\* A handleDelivery that requeues whatever went wrong.
settleRequeue(parseErr, handlerErr) ==
    IF parseErr \/ handlerErr THEN "nack_requeue" ELSE "ack"

\* handleDelivery: the call that settles the delivery.  "nack" is
\* Nack(false, false), "nack_requeue" is Nack(false, true), "ack" is
\* Ack(false).
settle(parseErr, handlerErr) ==
    IF parseErr THEN "nack"
    ELSE IF handlerErr THEN "nack_requeue"
    ELSE "ack"

\* The AMQP connection closes: every deliveries channel opened on it closes.
connectionClosed ==
    /\ connected
    /\ brokerDrops < MaxBrokerDrops
    /\ brokerDrops' = brokerDrops + 1
    /\ connected' = FALSE
    /\ copen' = [c \in Consumers |-> FALSE]
    /\ UNCHANGED <<reconnectCh, cpc, ccur, deliveries>>
    /\ UNCHANGED <<storeVars, brokerVars, orchVars, workerVars, apiVars, schedVars,
                   readyVars, backoffVars, lockVars>>

\* Connection.reconnect: connect succeeded; the signal is sent unless the
\* buffer of reconnectCh is full (select with default).
reconnect ==
    /\ ~connected
    /\ connected' = TRUE
    /\ reconnectCh' = IF reconnectCh < 1 THEN reconnectCh + 1 ELSE reconnectCh
    /\ UNCHANGED <<cpc, copen, ccur, deliveries, brokerDrops>>
    /\ UNCHANGED <<storeVars, brokerVars, orchVars, workerVars, apiVars, schedVars,
                   readyVars, backoffVars, lockVars>>

\* Consumer.consume: setupConsume on the current channel; on error the
\* consumer waits on ReconnectNotify.
setupConsume(c) ==
    /\ cpc[c] = "setup"
    /\ IF connected
       THEN /\ copen' = [copen EXCEPT ![c] = TRUE]
            /\ cpc' = [cpc EXCEPT ![c] = "consuming"]
       ELSE /\ cpc' = [cpc EXCEPT ![c] = "waiting"]
            /\ UNCHANGED copen
    /\ UNCHANGED <<connected, reconnectCh, ccur, deliveries, brokerDrops>>
    /\ UNCHANGED <<storeVars, brokerVars, orchVars, workerVars, apiVars, schedVars,
                   readyVars, backoffVars, lockVars>>

\* processDeliveries: the deliveries channel is closed; the consumer waits
\* on ReconnectNotify.
deliveriesClosed(c) ==
    /\ cpc[c] = "consuming"
    /\ ~copen[c]
    /\ cpc' = [cpc EXCEPT ![c] = "waiting"]
    /\ UNCHANGED <<connected, reconnectCh, copen, ccur, deliveries, brokerDrops>>
    /\ UNCHANGED <<storeVars, brokerVars, orchVars, workerVars, apiVars, schedVars,
                   readyVars, backoffVars, lockVars>>

\* case <-c.conn.ReconnectNotify(): the consumer receives one signal from
\* the channel and goes back to setupConsume.
reconnectNotified(c) ==
    /\ cpc[c] = "waiting"
    /\ reconnectCh > 0
    /\ reconnectCh' = reconnectCh - 1
    /\ cpc' = [cpc EXCEPT ![c] = "setup"]
    /\ UNCHANGED <<connected, copen, ccur, deliveries, brokerDrops>>
    /\ UNCHANGED <<storeVars, brokerVars, orchVars, workerVars, apiVars, schedVars,
                   readyVars, backoffVars, lockVars>>

\* handleDelivery up to the call of the handler: json.Unmarshal of the body;
\* on a parse error the delivery is settled and the handler is not called.
handleDelivery(c, parseErr) ==
    /\ cpc[c] = "consuming"
    /\ copen[c]
    /\ Len(deliveries) < MaxDeliveries
    /\ deliveries' = Append(deliveries,
                            [queue |-> c, parseErr |-> parseErr, invoked |-> ~parseErr,
                             handlerErr |-> FALSE, done |-> parseErr, ev |-> NoEvent,
                             calls |-> IF parseErr THEN <<settle(TRUE, FALSE)>> ELSE <<>>])
    /\ ccur' = [ccur EXCEPT ![c] = IF parseErr THEN 0 ELSE Len(deliveries) + 1]
    /\ cpc' = [cpc EXCEPT ![c] = IF parseErr THEN "consuming" ELSE "handler"]
    /\ UNCHANGED <<connected, reconnectCh, copen, brokerDrops>>
    /\ UNCHANGED <<storeVars, brokerVars, orchVars, workerVars, apiVars, schedVars,
                   readyVars, backoffVars, lockVars>>

\* handleDelivery after c.handler returned: Nack with requeue on an error,
\* Ack otherwise.
handlerReturned(c, handlerErr) ==
    /\ cpc[c] = "handler"
    /\ deliveries' = [deliveries EXCEPT ![ccur[c]] =
                         [@ EXCEPT !.handlerErr = handlerErr,
                                   !.done = TRUE,
                                   !.calls = Append(@, settle(FALSE, handlerErr))]]
    /\ ccur' = [ccur EXCEPT ![c] = 0]
    /\ cpc' = [cpc EXCEPT ![c] = "consuming"]
    /\ UNCHANGED <<connected, reconnectCh, copen, brokerDrops>>
    /\ UNCHANGED <<storeVars, brokerVars, orchVars, workerVars, apiVars, schedVars,
                   readyVars, backoffVars, lockVars>>

(***************************************************************************)
(* The handlers' answer to an event whose run or task is not in the store. *)
(***************************************************************************)
Queues == {"runs.pending", "tasks.completed", "tasks.ready"}

\* What an event refers to: whether its run is registered in activeRuns,
\* whether runs has its row and with which status, whether tasks has the
\* row of its task and with which status.
Events ==
    {e \in [runActive : BOOLEAN, runFound : BOOLEAN,
            runStatus : {"PENDING", "RUNNING", "SUCCEEDED"},
            taskFound : BOOLEAN, taskStatus : {"QUEUED", "SUCCEEDED"}] :
        /\ e.runActive => (e.runFound /\ e.runStatus = "RUNNING")
        /\ e.taskFound => e.runFound
        /\ ~e.runFound => e.runStatus = "PENDING"
        /\ ~e.taskFound => e.taskStatus = "QUEUED"}

\* processRun up to the status check: the error it returns, "" for none.
processRunErr(e) ==
    IF ~e.runFound THEN "ErrRunNotFound"
    ELSE IF e.runStatus # "PENDING" THEN "ErrRunNotPending"
    ELSE ""

\* handleRunPending: the error returned to the consumer, "" for nil.
handleRunPendingErr(e) ==
    IF e.runActive THEN ""
    ELSE IF processRunErr(e) \in {"ErrRunNotPending", "ErrRunAlreadyActive"} THEN ""
    ELSE processRunErr(e)

\* restoreRunState: whether it returns a RunState (nil for a run that does
\* not exist or is finished).
restoreRunStateFound(e) == e.runFound /\ ~IsFinished(e.runStatus)

\* handleTaskCompleted / processTaskCompleted steps 1-2: the error returned
\* to the consumer, "" for nil.
handleTaskCompletedErr(e) ==
    IF ~e.runActive /\ ~restoreRunStateFound(e) THEN ""
    ELSE IF ~e.taskFound THEN "ErrTaskNotFound"
    ELSE ""

\* handleTaskReady / processTask steps 1-2: the error returned to the
\* consumer, "" for nil.
handleTaskReadyErr(e) ==
    LET err == IF ~e.taskFound THEN "ErrTaskNotFound"
               ELSE IF e.taskStatus # "QUEUED" THEN "ErrTaskNotQueued"
               ELSE ""
    IN  IF err \in {"ErrTaskNotFound", "ErrTaskNotQueued"} THEN "" ELSE err

handlerErrOf(q, e) ==
    IF q = "runs.pending" THEN handleRunPendingErr(e)
    ELSE IF q = "tasks.completed" THEN handleTaskCompletedErr(e)
    ELSE handleTaskReadyErr(e)

\* handleDelivery of a well-formed event of queue q: the handler runs up to
\* its lookups in the store and the delivery is settled by its result.
handleEvent(q, e) ==
    /\ Len(deliveries) < MaxDeliveries
    /\ deliveries' = Append(deliveries,
                            [queue |-> q, parseErr |-> FALSE, invoked |-> TRUE,
                             handlerErr |-> handlerErrOf(q, e) # "", done |-> TRUE,
                             calls |-> <<settle(FALSE, handlerErrOf(q, e) # "")>>,
                             ev |-> e])
    /\ UNCHANGED <<connected, reconnectCh, cpc, copen, ccur, brokerDrops>>
    /\ UNCHANGED <<storeVars, brokerVars, orchVars, workerVars, apiVars, schedVars,
                   readyVars, backoffVars, lockVars>>

(***************************************************************************)
(* worker: calculateBackoff.                                               *)
(***************************************************************************)
Second == 1000

NilBackoff == [isNil |-> TRUE, Backoff |-> "", InitialDelayMs |-> 0, MaxDelayMs |-> 0]

\* The loop of the exponential case, from iteration i on.
RECURSIVE doubled(_, _, _, _)
doubled(delay, maxDelay, i, attempt) ==
    IF i >= attempt THEN delay
    ELSE IF delay * 2 > maxDelay THEN maxDelay
    ELSE doubled(delay * 2, maxDelay, i + 1, attempt)

calculateBackoff(attempt, policy) ==
    IF policy.isNil THEN Second
    ELSE LET initialDelay == IF policy.InitialDelayMs <= 0 THEN Second
                             ELSE policy.InitialDelayMs
             maxDelay == IF policy.MaxDelayMs <= 0 THEN 30 * Second
                         ELSE policy.MaxDelayMs
             delay == IF policy.Backoff = "exponential"
                      THEN doubled(initialDelay, maxDelay, 1, attempt)
                      ELSE initialDelay
         IN  IF delay > maxDelay THEN maxDelay ELSE delay

\* executeWithRetry: delay := calculateBackoff(task.Attempt, policy)
backoff ==
    /\ bkDelay = -1
    /\ bkDelay' = calculateBackoff(bkAttempt, bkPolicy)
    /\ UNCHANGED <<bkPolicy, bkAttempt>>
    /\ UNCHANGED <<storeVars, brokerVars, orchVars, workerVars, apiVars, schedVars,
                   readyVars, mqVars, lockVars>>

(***************************************************************************)
(* orchestrator: RunState.mu.  The methods of a RunState as the goroutines *)
(* of the orchestrator call them on one shared RunState: the lock each     *)
(* method takes, the accesses to the completed and running maps it makes   *)
(* while holding it, and the unlock.  rflow, rcompleted and rrunning are   *)
(* the DAG and the maps of the RunState.                                   *)
(***************************************************************************)
Goroutines == {"runs", "tasks"}

\* sync.RWMutex: RLock is granted while no goroutine holds the write lock,
\* Lock while no goroutine holds the lock at all.
RLockFree == muWriter = "none"

LockFree == muWriter = "none" /\ muReaders = {}

\* RunState.GetReadySteps: s.mu.RLock(), then DAG.GetReadyNodes starts to
\* range over the nodes, reading completed and running.
GetReadySteps_RLock(g) ==
    /\ gpc[g] = "idle"
    /\ RLockFree
    /\ muReaders' = muReaders \cup {g}
    /\ gpc' = [gpc EXCEPT ![g] = "scan"]
    /\ UNCHANGED <<muWriter, gnode>>
    /\ UNCHANGED <<storeVars, brokerVars, orchVars, workerVars, apiVars, schedVars,
                   readyVars, mqVars, backoffVars>>

\* DAG.GetReadyNodes reaches a join that is neither completed nor running
\* and whose dependencies are all completed: it executes
\* completed[node.ID] = true.
GetReadyNodes_join(g) ==
    /\ gpc[g] = "scan"
    /\ \E j \in JoinsCompleted(rflow, rcompleted, rrunning) :
          gnode' = [gnode EXCEPT ![g] = j]
    /\ gpc' = [gpc EXCEPT ![g] = "join_write"]
    /\ UNCHANGED <<muReaders, muWriter>>
    /\ UNCHANGED <<storeVars, brokerVars, orchVars, workerVars, apiVars, schedVars,
                   readyVars, mqVars, backoffVars>>

\* The store to the completed map is done.
GetReadyNodes_joinWritten(g) ==
    /\ gpc[g] = "join_write"
    /\ rcompleted' = rcompleted \cup {gnode[g]}
    /\ gpc' = [gpc EXCEPT ![g] = "scan"]
    /\ UNCHANGED <<muReaders, muWriter, gnode>>
    /\ UNCHANGED <<rflow, rrunning, rready, rcalled, rvalid, rdag>>
    /\ UNCHANGED <<storeVars, brokerVars, orchVars, workerVars, apiVars, schedVars,
                   mqVars, backoffVars>>

\* DAG.GetReadyNodes returns the ready nodes and the deferred s.mu.RUnlock()
\* runs.
GetReadySteps_RUnlock(g) ==
    /\ gpc[g] = "scan"
    /\ JoinsCompleted(rflow, rcompleted, rrunning) = {}
    /\ rready' = ReadyNodes(rflow, rcompleted, rrunning)
    /\ muReaders' = muReaders \ {g}
    /\ gpc' = [gpc EXCEPT ![g] = "idle"]
    /\ UNCHANGED <<muWriter, gnode>>
    /\ UNCHANGED <<rflow, rcompleted, rrunning, rcalled, rvalid, rdag>>
    /\ UNCHANGED <<storeVars, brokerVars, orchVars, workerVars, apiVars, schedVars,
                   mqVars, backoffVars>>

\* RunState.MarkStepRunning(stepID, task), called by dispatchStep for a node
\* GetReadySteps returned: s.mu.Lock().
MarkStepRunning_Lock(g) ==
    /\ gpc[g] = "idle"
    /\ LockFree
    /\ \E n \in rready \ (rrunning \cup rcompleted) :
          gnode' = [gnode EXCEPT ![g] = n]
    /\ muWriter' = g
    /\ gpc' = [gpc EXCEPT ![g] = "mark_running"]
    /\ UNCHANGED muReaders
    /\ UNCHANGED <<storeVars, brokerVars, orchVars, workerVars, apiVars, schedVars,
                   readyVars, mqVars, backoffVars>>

\* RunState.MarkStepCompleted(stepID, outputs), called by
\* processTaskCompleted on the task consumer's goroutine for a step that
\* was running: s.mu.Lock().
MarkStepCompleted_Lock(g) ==
    /\ g = "tasks"
    /\ gpc[g] = "idle"
    /\ LockFree
    /\ \E n \in rrunning : gnode' = [gnode EXCEPT ![g] = n]
    /\ muWriter' = g
    /\ gpc' = [gpc EXCEPT ![g] = "mark_completed"]
    /\ UNCHANGED muReaders
    /\ UNCHANGED <<storeVars, brokerVars, orchVars, workerVars, apiVars, schedVars,
                   readyVars, mqVars, backoffVars>>

\* The body of MarkStepRunning or MarkStepCompleted and the deferred
\* s.mu.Unlock().
MarkStep_Unlock(g) ==
    /\ gpc[g] \in {"mark_running", "mark_completed"}
    /\ IF gpc[g] = "mark_running"
       THEN /\ rrunning' = rrunning \cup {gnode[g]}
            /\ UNCHANGED rcompleted
       ELSE /\ rrunning' = rrunning \ {gnode[g]}
            /\ rcompleted' = rcompleted \cup {gnode[g]}
    /\ muWriter' = "none"
    /\ gpc' = [gpc EXCEPT ![g] = "idle"]
    /\ UNCHANGED <<muReaders, gnode>>
    /\ UNCHANGED <<rflow, rready, rcalled, rvalid, rdag>>
    /\ UNCHANGED <<storeVars, brokerVars, orchVars, workerVars, apiVars, schedVars,
                   mqVars, backoffVars>>

\* RunState.IsComplete, called by processTaskCompleted: s.mu.RLock(), then
\* the loop that reads completed.
IsComplete_RLock(g) ==
    /\ g = "tasks"
    /\ gpc[g] = "idle"
    /\ RLockFree
    /\ muReaders' = muReaders \cup {g}
    /\ gpc' = [gpc EXCEPT ![g] = "is_complete"]
    /\ UNCHANGED <<muWriter, gnode>>
    /\ UNCHANGED <<storeVars, brokerVars, orchVars, workerVars, apiVars, schedVars,
                   readyVars, mqVars, backoffVars>>

\* IsComplete returns and the deferred s.mu.RUnlock() runs.
IsComplete_RUnlock(g) ==
    /\ gpc[g] = "is_complete"
    /\ muReaders' = muReaders \ {g}
    /\ gpc' = [gpc EXCEPT ![g] = "idle"]
    /\ UNCHANGED <<muWriter, gnode>>
    /\ UNCHANGED <<storeVars, brokerVars, orchVars, workerVars, apiVars, schedVars,
                   readyVars, mqVars, backoffVars>>

(***************************************************************************)
(* Specifications.                                                         *)
(***************************************************************************)
vars == <<storeVars, brokerVars, orchVars, workerVars, apiVars, schedVars, readyVars,
          mqVars, backoffVars, lockVars>>

RunIdle ==
    /\ InitRun(FlowChain, 0)

SchedIdle ==
    /\ now = 0
    /\ schedules = [id \in SchedIDs |-> NoSched]
    /\ flowHasVersion = [id \in SchedIDs |-> FALSE]
    /\ runs = <<>>
    /\ runsPublished = {}
    /\ lockSession = "none"
    /\ hasLock = [p \in SchedProcs |-> FALSE]
    /\ spc = [p \in SchedProcs |-> "idle"]
    /\ sbatch = [p \in SchedProcs |-> <<>>]
    /\ stime = [p \in SchedProcs |-> 0]
    /\ connDrops = 0

MqIdle ==
    /\ connected = TRUE
    /\ reconnectCh = 0
    /\ cpc = [c \in Consumers |-> "setup"]
    /\ copen = [c \in Consumers |-> FALSE]
    /\ ccur = [c \in Consumers |-> 0]
    /\ deliveries = <<>>
    /\ brokerDrops = 0

LockIdle ==
    /\ muReaders = {}
    /\ muWriter = "none"
    /\ gpc = [g \in Goroutines |-> "idle"]
    /\ gnode = [g \in Goroutines |-> ""]

BackoffIdle ==
    /\ bkPolicy = NilBackoff
    /\ bkAttempt = 1
    /\ bkDelay = -1

ReadyIdle ==
    /\ rflow = <<>>
    /\ rcompleted = {}
    /\ rrunning = {}
    /\ rready = {}
    /\ rcalled = FALSE
    /\ rvalid = ""
    /\ rdag = NoDAG

\* One run of one of the flows, created by the API and published as run.pending.
Init ==
    /\ \E fl \in Flows : InitRun(fl, 1)
    /\ SchedIdle
    /\ ReadyIdle
    /\ MqIdle
    /\ LockIdle
    /\ BackoffIdle

\* Orchestrator and one worker goroutine (the tasks.ready consumer) with
\* store and broker available.
NextSys ==
    \/ handleRunPending
    \/ \E th \in {"run", "poll"} : processRun(th)
    \/ \E th \in OThreads : \E n \in NodeIDs(flow) : dispatchStep(th, n)
    \/ \E th \in OThreads : publishTaskReady(th, TRUE)
    \/ \E th \in OThreads : dispatchDone(th)
    \/ \E m \in BagToSet(qTasksCompleted) : handleTaskCompleted(m)
    \/ restoreRunState
    \/ processTaskCompleted
    \/ \E id \in TaskIDs : handleTaskReady(id)
    \/ \E w \in WThreads : processTaskStart(w)
    \/ \E w \in WThreads : \E resp \in {200, 500} : executeWithRetry(w, resp, TRUE)

\* The user of the API.
NextApi ==
    \/ CancelRunLoad
    \/ CancelRun

\* The whole system: the orchestrator with its three goroutines, a worker,
\* the API's cancel and restarts of the orchestrator process.
Next ==
    \/ NextSys
    \/ poll
    \/ NextApi
    \/ orchestratorRestart

Spec == Init /\ [][Next]_vars

\* The orchestrator with its three goroutines and a worker, with restarts
\* of the orchestrator process: the polling loop and the run.pending handler
\* may both take the run up, and a restore may follow a restart.
NextActivate ==
    \/ NextSys
    \/ poll
    \/ orchestratorRestart

SpecActivate == Init /\ [][NextActivate]_vars

\* One run of a flow that has one step ready at a time or of a flow that
\* Initialize rejects,
\* its run.pending event published.
InitInitialize ==
    /\ \E fl \in {FlowChain, FlowSkip, FlowPar, FlowCycle, FlowBadType} : InitRun(fl, 1)
    /\ SchedIdle
    /\ ReadyIdle
    /\ MqIdle
    /\ LockIdle
    /\ BackoffIdle

SpecInitialize == InitInitialize /\ [][NextActivate]_vars

\* One scheduler process and, beside it, orchestrator and worker driving one
\* run of FlowChain: every publisher of the system at work.  The scheduler's
\* publish of run.pending may fail.  With a single worker goroutine and no
\* restart the run is never looked up while it is not active, so
\* restoreRunState has no step here.
schedulerProcess ==
    \/ tick("s1")
    \/ \E updateOk \in BOOLEAN : processSchedule("s1", updateOk)
    \/ \E updateOk, publishOk \in BOOLEAN : createRun("s1", updateOk, publishOk)
    \/ tickDone("s1")
    \/ clock

InitPublish ==
    /\ InitRun(FlowChain, 1)
    /\ ReadyIdle
    /\ MqIdle
    /\ LockIdle
    /\ BackoffIdle
    /\ now = 0
    /\ \E d1 \in {0, 1} :
         schedules = [id \in SchedIDs |->
                        IF id = 1 THEN Schedule(1, "*/2", 0, d1) ELSE Schedule(2, "", 2, 0)]
    /\ flowHasVersion = [id \in SchedIDs |-> TRUE]
    /\ runs = <<>>
    /\ runsPublished = {}
    /\ lockSession = "none"
    /\ hasLock = [p \in SchedProcs |-> FALSE]
    /\ spc = [p \in SchedProcs |-> "idle"]
    /\ sbatch = [p \in SchedProcs |-> <<>>]
    /\ stime = [p \in SchedProcs |-> 0]
    /\ connDrops = 0

\* One scheduler process and two schedules whose flows have a version: the
\* first has a cron expression or an interval and was due three ticks ago or
\* is due now, the second has an interval of one tick.
InitCatchUp ==
    /\ RunIdle
    /\ ReadyIdle
    /\ MqIdle
    /\ LockIdle
    /\ BackoffIdle
    /\ now = 0
    /\ \E c1 \in {"*/1", "*/2", ""}, d1 \in {0 - 3, 0} :
         schedules = [id \in SchedIDs |->
                        IF id = 1 THEN Schedule(1, c1, IF c1 = "" THEN 1 ELSE 0, d1)
                        ELSE Schedule(2, "", 1, 0)]
    /\ flowHasVersion = [id \in SchedIDs |-> TRUE]
    /\ runs = <<>>
    /\ runsPublished = {}
    /\ lockSession = "none"
    /\ hasLock = [p \in SchedProcs |-> FALSE]
    /\ spc = [p \in SchedProcs |-> "idle"]
    /\ sbatch = [p \in SchedProcs |-> <<>>]
    /\ stime = [p \in SchedProcs |-> 0]
    /\ connDrops = 0

SpecCatchUp == InitCatchUp /\ [][schedulerProcess]_vars

NextPublish ==
    \/ schedulerProcess
    \/ handleRunPending
    \/ processRun("run")
    \/ \E th \in OThreads : \E n \in NodeIDs(flow) : dispatchStep(th, n)
    \/ \E th \in OThreads : publishTaskReady(th, TRUE)
    \/ \E th \in OThreads : dispatchDone(th)
    \/ \E m \in BagToSet(qTasksCompleted) : handleTaskCompleted(m)
    \/ processTaskCompleted
    \/ \E id \in TaskIDs : handleTaskReady(id)
    \/ processTaskStart("consumer")
    \/ \E resp \in {200, 500} : executeWithRetry("consumer", resp, TRUE)

SpecPublish == InitPublish /\ [][NextPublish]_vars

\* The orchestrator's consumers and a worker, with restarts of the
\* orchestrator process.
NextRestart ==
    \/ NextSys
    \/ orchestratorRestart

SpecRestart == Init /\ [][NextRestart]_vars

\* The worker with both of its goroutines: the tasks.ready consumer and the
\* poll of QUEUED tasks.
NextWorker ==
    \/ NextSys
    \/ \E id \in TaskIDs : workerPoll(id)

SpecWorker == Init /\ [][NextWorker]_vars

\* Fair scheduling with store and broker available: orchestrator and worker
\* keep taking steps while they have one to take.
SpecFair == Init /\ [][NextSys]_vars /\ WF_vars(NextSys)

\* As NextSys, but the worker's publish of task.completed may fail.
NextLoss ==
    \/ handleRunPending
    \/ \E th \in {"run", "poll"} : processRun(th)
    \/ \E th \in OThreads : \E n \in NodeIDs(flow) : dispatchStep(th, n)
    \/ \E th \in OThreads : publishTaskReady(th, TRUE)
    \/ \E th \in OThreads : dispatchDone(th)
    \/ \E m \in BagToSet(qTasksCompleted) : handleTaskCompleted(m)
    \/ restoreRunState
    \/ processTaskCompleted
    \/ \E id \in TaskIDs : handleTaskReady(id)
    \/ \E w \in WThreads : processTaskStart(w)
    \/ \E w \in WThreads : \E resp \in {200, 500}, ok \in BOOLEAN :
          executeWithRetry(w, resp, ok)

SpecLoss == Init /\ [][NextLoss]_vars /\ WF_vars(NextLoss)

\* One run of a flow that has one step ready at a time, its run.pending
\* event published.
InitReadyLoss ==
    /\ \E fl \in {FlowChain, FlowSkip, FlowPar} : InitRun(fl, 1)
    /\ SchedIdle
    /\ ReadyIdle
    /\ MqIdle
    /\ LockIdle
    /\ BackoffIdle

\* As NextWorker, but the orchestrator's publish of task.ready may fail.
NextReadyLoss ==
    \/ handleRunPending
    \/ \E th \in {"run", "poll"} : processRun(th)
    \/ \E th \in OThreads : \E n \in NodeIDs(flow) : dispatchStep(th, n)
    \/ \E th \in OThreads : \E ok \in BOOLEAN : publishTaskReady(th, ok)
    \/ \E th \in OThreads : dispatchDone(th)
    \/ \E m \in BagToSet(qTasksCompleted) : handleTaskCompleted(m)
    \/ restoreRunState
    \/ processTaskCompleted
    \/ \E id \in TaskIDs : handleTaskReady(id)
    \/ \E id \in TaskIDs : workerPoll(id)
    \/ \E w \in WThreads : processTaskStart(w)
    \/ \E w \in WThreads : \E resp \in {200, 500} : executeWithRetry(w, resp, TRUE)

\* The worker's pollLoop goroutine: poll on every tick, processTask for each
\* listed task.
workerPollLoop ==
    \/ \E id \in TaskIDs : workerPoll(id)
    \/ processTaskStart("poll")
    \/ \E resp \in {200, 500} : executeWithRetry("poll", resp, TRUE)

\* The worker's tasks.ready consumer goroutine: a handler once started runs
\* to its end.
workerConsumer ==
    \/ processTaskStart("consumer")
    \/ \E resp \in {200, 500} : executeWithRetry("consumer", resp, TRUE)

\* A running worker: its poll goroutine keeps polling and a handler of its
\* consumer ends; nothing is assumed of the orchestrator.
SpecReadyLoss ==
    /\ InitReadyLoss
    /\ [][NextReadyLoss]_vars
    /\ WF_vars(workerPollLoop)
    /\ WF_vars(workerConsumer)

\* As NextWorker, with stops of the worker process.
NextStop ==
    \/ NextWorker
    \/ workerStop

\* Orchestrator and worker keep taking steps while they have one to take,
\* both goroutines of the worker included; the worker stops only finitely
\* often, so that in the end a worker is running.
SpecStop ==
    /\ InitReadyLoss
    /\ [][NextStop]_vars
    /\ WF_vars(NextWorker)
    /\ WF_vars(workerPollLoop)
    /\ WF_vars(workerConsumer \/ \E id \in TaskIDs : handleTaskReady(id))

\* The run was created PENDING and its run.pending event was lost.
InitPoll ==
    /\ \E fl \in Flows : InitRun(fl, 0)
    /\ SchedIdle
    /\ ReadyIdle
    /\ MqIdle
    /\ LockIdle
    /\ BackoffIdle

\* The orchestrator's poll loop and task consumer, and a worker.
NextPoll ==
    \/ poll
    \/ processRun("poll")
    \/ \E th \in OThreads : \E n \in NodeIDs(flow) : dispatchStep(th, n)
    \/ \E th \in OThreads : publishTaskReady(th, TRUE)
    \/ \E th \in OThreads : dispatchDone(th)
    \/ \E m \in BagToSet(qTasksCompleted) : handleTaskCompleted(m)
    \/ restoreRunState
    \/ processTaskCompleted
    \/ \E id \in TaskIDs : handleTaskReady(id)
    \/ \E w \in WThreads : processTaskStart(w)
    \/ \E w \in WThreads : \E resp \in {200, 500} : executeWithRetry(w, resp, TRUE)

\* The poll ticker keeps firing and the goroutines keep running.
SpecPoll == InitPoll /\ [][NextPoll]_vars /\ WF_vars(NextPoll)

\* One run of a one-step flow whose http step has a retry policy or none.
InitRetry ==
    /\ \E fl \in RetryFlows : InitRun(fl, 1)
    /\ SchedIdle
    /\ ReadyIdle
    /\ MqIdle
    /\ LockIdle
    /\ BackoffIdle

\* The orchestrator's consumers and the worker with both of its goroutines;
\* the server answers any of Responses to each attempt.
NextRetry ==
    \/ handleRunPending
    \/ \E th \in {"run", "poll"} : processRun(th)
    \/ \E th \in OThreads : \E n \in NodeIDs(flow) : dispatchStep(th, n)
    \/ \E th \in OThreads : publishTaskReady(th, TRUE)
    \/ \E th \in OThreads : dispatchDone(th)
    \/ \E m \in BagToSet(qTasksCompleted) : handleTaskCompleted(m)
    \/ restoreRunState
    \/ processTaskCompleted
    \/ \E id \in TaskIDs : handleTaskReady(id)
    \/ \E id \in TaskIDs : workerPoll(id)
    \/ \E w \in WThreads : processTaskStart(w)
    \/ \E w \in WThreads : \E resp \in Responses : executeWithRetry(w, resp, TRUE)

SpecRetry == InitRetry /\ [][NextRetry]_vars

\* Two schedules: the first has a cron expression that parses or not and
\* is due at 0 or 1, the second has an interval and is due at 0; the second
\* one's flow has a version or not.
InitSched ==
    /\ RunIdle
    /\ ReadyIdle
    /\ MqIdle
    /\ LockIdle
    /\ BackoffIdle
    /\ now = 0
    /\ \E c1 \in {"*/2", "bad"}, d1 \in {0, 1} :
         schedules = [id \in SchedIDs |->
                        IF id = 1 THEN Schedule(1, c1, 0, d1) ELSE Schedule(2, "", 2, 0)]
    /\ \E v \in BOOLEAN : flowHasVersion = [id \in SchedIDs |-> id = 1 \/ v]
    /\ runs = <<>>
    /\ runsPublished = {}
    /\ lockSession = "none"
    /\ hasLock = [p \in SchedProcs |-> FALSE]
    /\ spc = [p \in SchedProcs |-> "idle"]
    /\ sbatch = [p \in SchedProcs |-> <<>>]
    /\ stime = [p \in SchedProcs |-> 0]
    /\ connDrops = 0

NextSched ==
    \/ \E p \in SchedProcs : tick(p)
    \/ \E p \in SchedProcs : \E updateOk \in BOOLEAN : processSchedule(p, updateOk)
    \/ \E p \in SchedProcs : \E updateOk \in BOOLEAN : createRun(p, updateOk, TRUE)
    \/ \E p \in SchedProcs : tickDone(p)
    \/ \E p \in SchedProcs : connClosed(p)
    \/ clock

SpecSched == InitSched /\ [][NextSched]_vars

\* GetReadyNodes on every pair of maps a RunState of the flow can hold.
InitReady ==
    /\ RunIdle
    /\ SchedIdle
    /\ MqIdle
    /\ LockIdle
    /\ BackoffIdle
    /\ rflow \in ReadyFlows
    /\ rcompleted \in SUBSET NodeIDs(rflow)
    /\ rrunning \in SUBSET NodeIDs(rflow)
    /\ Closed(rflow, rcompleted, rrunning)
    /\ rready = {}
    /\ rcalled = FALSE
    /\ rvalid = ""
    /\ rdag = NoDAG

NextReady == getReadyNodes

SpecReady == InitReady /\ [][NextReady]_vars

\* GetReadyNodes on any pair of maps over the node ids of the flow.
InitReadyAny ==
    /\ RunIdle
    /\ SchedIdle
    /\ MqIdle
    /\ LockIdle
    /\ BackoffIdle
    /\ rflow \in ReadyFlows
    /\ rcompleted \in SUBSET NodeIDs(rflow)
    /\ rrunning \in SUBSET NodeIDs(rflow)
    /\ rready = {}
    /\ rcalled = FALSE
    /\ rvalid = ""
    /\ rdag = NoDAG

SpecReadyAny == InitReadyAny /\ [][NextReady]_vars

\* The steps the flow specs given to Validate are made of: plain steps with
\* an id that may be empty, a type that may be unknown and at most one
\* depends_on entry, and parallel steps "P" with no branch, a branch without
\* steps, one branch or two branches.
DagSteps ==
    { StepDef(id, type, deps, "", 0) :
        id \in {"A", "B", ""}, type \in {"http", "shell"},
        deps \in {<<>>, <<"A">>, <<"B">>, <<"P">>, <<"P.a.s1">>, <<"C">>} }
    \cup { ParallelDef("P", deps, "", brs) :
             deps \in {<<>>, <<"A">>},
             brs \in { <<>>,
                       << Branch("a", <<>>) >>,
                       << Branch("a", << StepDef("s1", "http", <<>>, "", 0) >>) >>,
                       << Branch("a", << StepDef("s1", "http", <<>>, "", 0),
                                         StepDef("s2", "http", <<"A">>, "", 0) >>),
                          Branch("b", << StepDef("s1", "delay", <<>>, "", 0) >>) >>,
                       << Branch("a", << StepDef("s1", "http", <<>>, "", 0) >>),
                          Branch("a", << StepDef("s2", "http", <<>>, "", 0) >>) >> } }

\* Flow specs of up to two steps.
DagFlows ==
    {<<>>} \cup { <<s>> : s \in DagSteps } \cup { <<s, t>> : s, t \in DagSteps }

InitDag ==
    /\ RunIdle
    /\ SchedIdle
    /\ MqIdle
    /\ LockIdle
    /\ BackoffIdle
    /\ rflow \in DagFlows
    /\ rcompleted = {}
    /\ rrunning = {}
    /\ rready = {}
    /\ rcalled = FALSE
    /\ rvalid = ""
    /\ rdag = NoDAG

NextDag ==
    \/ validate
    \/ buildDAG

SpecDag == InitDag /\ [][NextDag]_vars

(***************************************************************************)
(* Properties.                                                             *)
(***************************************************************************)

\* An orchestrator process connected to the broker: NewConnection has
\* succeeded and its two consumers are started.
InitMq ==
    /\ RunIdle
    /\ SchedIdle
    /\ ReadyIdle
    /\ BackoffIdle
    /\ MqIdle
    /\ LockIdle

\* What the connection's watcher and the consumers' goroutines do by
\* themselves.
NextMqSys ==
    \/ reconnect
    \/ \E c \in Consumers : setupConsume(c)
    \/ \E c \in Consumers : deliveriesClosed(c)
    \/ \E c \in Consumers : reconnectNotified(c)
    \/ \E c \in Consumers : \E handlerErr \in BOOLEAN : handlerReturned(c, handlerErr)

NextMq ==
    \/ NextMqSys
    \/ connectionClosed
    \/ \E c \in Consumers : \E parseErr \in BOOLEAN : handleDelivery(c, parseErr)

\* The watcher's reconnect loop and the consumers keep running; the broker
\* is free to close the connection or not and to deliver messages or not.
SpecMq == InitMq /\ [][NextMq]_vars /\ WF_vars(NextMqSys)

\* The arguments of one call of calculateBackoff.
BackoffPolicies ==
    {NilBackoff} \cup
    [isNil : {FALSE}, Backoff : {"exponential", "fixed", "linear"},
     InitialDelayMs : {0, 1000, 2000, 40000}, MaxDelayMs : {0, 10000}]

InitBackoff ==
    /\ RunIdle
    /\ SchedIdle
    /\ ReadyIdle
    /\ MqIdle
    /\ LockIdle
    /\ bkPolicy \in BackoffPolicies
    /\ bkAttempt \in 1..MaxAttempt
    /\ bkDelay = -1

NextBackoff == backoff

SpecBackoff == InitBackoff /\ [][NextBackoff]_vars

\* One run of one of the flows, among them those in which a step is
\* skipped, its run.pending event published.
InitSkip ==
    /\ \E fl \in Flows \cup {FlowSkipFirst} : InitRun(fl, 1)
    /\ SchedIdle
    /\ ReadyIdle
    /\ MqIdle
    /\ LockIdle
    /\ BackoffIdle

\* SpecFair with the flow whose first step is skipped.
SpecSkip == InitSkip /\ [][NextSys]_vars /\ WF_vars(NextSys)

\* Events delivered to the three consumers, each referring to a run and a
\* task that the store has or has not.
NextHandlers == \E q \in Queues : \E e \in Events : handleEvent(q, e)

SpecHandlers == InitMq /\ [][NextHandlers]_vars

\* One RunState after Initialize, its maps empty, shared by the goroutines
\* of the run consumer and the task consumer.
InitLock ==
    /\ RunIdle
    /\ SchedIdle
    /\ MqIdle
    /\ LockIdle
    /\ BackoffIdle
    /\ rflow \in ReadyFlows
    /\ rcompleted = {}
    /\ rrunning = {}
    /\ rready = {}
    /\ rcalled = FALSE
    /\ rvalid = ""
    /\ rdag = NoDAG

NextLock ==
    \E g \in Goroutines :
        \/ GetReadySteps_RLock(g)
        \/ GetReadyNodes_join(g)
        \/ GetReadyNodes_joinWritten(g)
        \/ GetReadySteps_RUnlock(g)
        \/ MarkStepRunning_Lock(g)
        \/ MarkStepCompleted_Lock(g)
        \/ MarkStep_Unlock(g)
        \/ IsComplete_RLock(g)
        \/ IsComplete_RUnlock(g)

SpecLock == InitLock /\ [][NextLock]_vars

\* C1: once the stored status of a run is terminal (SUCCEEDED, FAILED or
\* CANCELLED) no step of the orchestrator, the worker or the API changes it.
C1_TerminalStatusIsFinal ==
    [][IsFinished(runStatus) => runStatus' = runStatus]_vars

\* C2: the tasks table holds at most one row per step of the run, also after
\* the orchestrator restarted and restored the run while a task was QUEUED.
\* Stated for the run of the linear flow, whose steps become ready one at a
\* time.
C2_OneTaskPerStep ==
    flow = FlowChain =>
        \A i, j \in DOMAIN tasks : tasks[i].step = tasks[j].step => i = j

\* C8: no task row has type "parallel", and so none is published as task.ready.
C8_NoParallelTask ==
    \A i \in DOMAIN tasks : tasks[i].type # "parallel"

\* C10: while the orchestrator handles a task.completed delivery that it took
\* after CANCELLED was stored for the run, it inserts no task row.
C10_NoTaskAfterCancel ==
    [][~(lateDispatch /\ opc["task"] = "dispatch" /\ opc'["task"] = "created")]_vars

\* C3: every task is started by at most one processTask invocation, and at
\* most one task.completed message is published for it.
C3_ExecutedOnce ==
    \A t \in TaskIDs : started[t] <= 1 /\ published[t] <= 1

\* C5: under fair scheduling a run that is RUNNING eventually has a terminal
\* status.
C5_RunningRunTerminates ==
    (runStatus = "RUNNING") ~> (runStatus \in RunTerminal)

\* The orchestrator has observed the terminal status of task i: the task's
\* step is completed or failed in a RunState, or the run was finalized.
Observed(i) ==
    \/ runStatus \in RunTerminal
    \/ \E th \in OThreads : tasks[i].step \in rs[th].completed \cup rs[th].failed

\* C6: a task that is terminal in the store is eventually observed by the
\* orchestrator, whether or not its task.completed message was published.
C6_TerminalTaskObserved ==
    \A i \in TaskIDs :
        (i \in DOMAIN tasks /\ tasks[i].status \in TaskTerminal) ~> (i \in DOMAIN tasks /\ Observed(i))

\* C4: the runs table holds at most one row per (flow, idempotency key);
\* every run of a schedule is keyed by the schedule and the next_due_at it
\* was created for, so there is at most one run per schedule and next_due_at.
C4_OneRunPerDueTime ==
    /\ \A i, j \in DOMAIN runs :
          (runs[i].flow = runs[j].flow /\ runs[i].key = runs[j].key) => i = j
    /\ \A i \in DOMAIN runs : runs[i].key = <<runs[i].sched, runs[i].due>>
    /\ \A i, j \in DOMAIN runs :
          (runs[i].sched = runs[j].sched /\ runs[i].due = runs[j].due) => i = j

\* A tick started at time 1 has gone through its batch, which held schedule
\* 1 with next_due_at still 0, and the run for that due time was created at
\* time 0: the schedule was processed again for the same next_due_at.
C4_Witness ==
    \E p \in SchedProcs :
        /\ spc[p] = "process"
        /\ sbatch[p] = <<>>
        /\ stime[p] = 1
        /\ schedules[1].nextDueAt = 0
        /\ flowHasVersion[1]
        /\ \E i \in DOMAIN runs :
              runs[i].sched = 1 /\ runs[i].due = 0 /\ runs[i].createdAt = 0

\* C7: at any time at most one scheduler process is inside Tick.
C7_SingleLeader ==
    \A p, q \in SchedProcs : (spc[p] # "idle" /\ spc[q] # "idle") => p = q

\* The parallel steps a node's step names in depends_on.
ParallelDeps(spec, n) ==
    { d \in Range(GetNode(spec, n).Step.dependsOn) :
        \E i \in DOMAIN spec : spec[i].id = d /\ spec[i].type = "parallel" }

\* C9: GetReadyNodes returns a step that depends_on a parallel step only
\* when that parallel step's join node is completed.
C9_DependentWaitsForJoin ==
    rcalled =>
        \A n \in rready \cap { rflow[i].id : i \in DOMAIN rflow } :
            \A d \in ParallelDeps(rflow, n) : joinID(d) \in rcompleted

\* C11: once the run has been finalized FAILED because a task.completed
\* event with status FAILED was handled, no task row is inserted for the run.
C11_NoTaskAfterFailure ==
    [][runStatus = "FAILED" => Len(tasks') = Len(tasks)]_vars

\* C12: the step that stores SUCCEEDED for the run is taken on a RunState in
\* which every executable (non-join) node is in completed and failed is
\* empty, so no executable node is only running or not yet dispatched.
C12_SucceededOnlyWhenAllCompleted ==
    [][(runStatus' = "SUCCEEDED" /\ runStatus # "SUCCEEDED") =>
          LET s == rs'[oref["task"]]
          IN  /\ GetExecutableNodes(flow) \subseteq s.completed
              /\ s.failed = {}]_vars

\* The run was finalized SUCCEEDED on a RunState restored after a restart of
\* the orchestrator.
C12_Witness ==
    /\ runStatus = "SUCCEEDED"
    /\ restarts = 1
    /\ rs["task"].run = "SUCCEEDED"
    /\ GetExecutableNodes(flow) \subseteq rs["task"].completed

\* The orchestrator and the worker are at rest and no task.completed event is
\* in flight: the registered RunState has seen every transition of the run's
\* tasks.
Quiescent ==
    /\ activeRuns # "none"
    /\ opc = [th \in OThreads |-> "idle"]
    /\ wpc = [w \in WThreads |-> "idle"]
    /\ qTasksCompleted = EmptyBag

\* C13: RestoreFromTasks applied to the persisted tasks of the run gives, on
\* the executable nodes, the completed, running and failed sets of the live
\* RunState that dispatched those tasks and handled their completions.
C13_RestoreEqualsLive ==
    Quiescent =>
        LET live == rs[activeRuns]
            restored == RestoreFromTasks(NewRunState(runStatus), tasks)
            exec == GetExecutableNodes(flow)
        IN  /\ restored.completed \cap exec = live.completed \cap exec
            /\ restored.running \cap exec = live.running \cap exec
            /\ restored.failed \cap exec = live.failed \cap exec

\* C14: in the tasks table the attempt counter of a task never decreases, the
\* status changes only QUEUED -> RUNNING -> SUCCEEDED or FAILED (a retry
\* rewrites RUNNING with the next attempt), and a row that is SUCCEEDED or
\* FAILED is never changed again.
C14_TaskStatusLattice ==
    [][\A i \in DOMAIN tasks :
          /\ tasks'[i].attempt >= tasks[i].attempt
          /\ tasks[i].status \in TaskTerminal => tasks'[i] = tasks[i]
          /\ tasks'[i].status # tasks[i].status =>
                <<tasks[i].status, tasks'[i].status>> \in
                    { <<"QUEUED", "RUNNING">>, <<"RUNNING", "SUCCEEDED">>,
                      <<"RUNNING", "FAILED">> }]_vars

\* C15: for a task whose effective max_attempts is N the executor is invoked
\* at most N times, and the attempt numbers of the invocations are 1, 2, ..., k.
C15_AttemptsWithinMax ==
    \A t \in DOMAIN tasks :
        LET N == effectiveMaxAttempts(getRetryPolicy(flow, tasks[t].step))
        IN  /\ Len(executions[t]) <= N
            /\ \A i \in DOMAIN executions[t] : executions[t][i].attempt = i

\* C16: when an attempt of a worker goroutine failed and attempts remain, the
\* goroutine starts the next attempt if and only if there was no response
\* (infrastructure error) or the response was a logical error and on_status
\* is empty or lists its status code; otherwise the task is stored FAILED and
\* the goroutine is done with it.
C16_RetryDecision ==
    [][\A w \in WThreads :
          (wpc[w] = "running" /\ wtask'[w] # wtask[w]) =>
             LET t == wtask[w]
                 resp == executions'[t.id][Len(executions'[t.id])].resp
                 policy == getRetryPolicy(flow, t.step)
                 infra == resp = 0
                 logical == resp >= 400
                 retriable == infra \/ (logical /\ (policy.OnStatus = {} \/ resp \in policy.OnStatus))
                 retried == /\ wpc'[w] = "running"
                            /\ wtask'[w].attempt = t.attempt + 1
                            /\ tasks'[t.id].status = "RUNNING"
             IN  ((infra \/ logical) /\ t.attempt < effectiveMaxAttempts(policy)) =>
                    /\ retried <=> retriable
                    /\ ~retriable => (tasks'[t.id].status = "FAILED" /\ wpc'[w] = "idle")]_vars

\* Under max_attempts 3 and on_status [503] the first attempt got 503 and was
\* retried, the second got 500 and the task is FAILED after two attempts.
C16_Witness ==
    /\ flow = FlowRetryOnStatus
    /\ 1 \in DOMAIN tasks
    /\ executions[1] = << [attempt |-> 1, resp |-> 503], [attempt |-> 2, resp |-> 500] >>
    /\ tasks[1].status = "FAILED"
    /\ tasks[1].attempt = 2

\* C17: for a flow spec that Validate accepted, BuildDAG returns no error and
\* the ids of its nodes are the top-level step ids, the ids
\* {parallel}.{branch}.{step} of the branch steps and {parallel}.join of
\* every parallel step.
C17_ValidatedSpecBuilds ==
    (rvalid = "ok" /\ rdag # NoDAG) =>
        /\ rdag.err = ""
        /\ rdag.Nodes = stepIDs(rflow)
                          \cup { joinID(rflow[i].id) :
                                   i \in { k \in DOMAIN rflow : rflow[k].type = "parallel" } }

\* C18: GetReadyNodes returns exactly the nodes that are not joins, are in
\* neither completed nor running, and have every node they depend on in
\* completed; for the diamond with completed = {A, B} and C running it
\* returns nothing.
C18_ReadyNodesExact ==
    rcalled =>
        /\ rready = { n \in NodeIDs(rflow) :
                        /\ ~GetNode(rflow, n).IsJoin
                        /\ n \notin rcompleted
                        /\ n \notin rrunning
                        /\ \A e \in Edges(rflow) : e[2] = n => e[1] \in rcompleted }
        /\ (rflow = FlowDiamond /\ rcompleted = {"A", "B"} /\ rrunning = {"C"}) => rready = {}

\* GetReadyNodes has returned for the diamond with A and B completed and C
\* running.
C18_Witness ==
    /\ rcalled
    /\ rflow = FlowDiamond
    /\ rcompleted = {"A", "B"}
    /\ rrunning = {"C"}
    /\ rready = {}

\* C19: a run stored as PENDING whose run.pending event was never delivered
\* is eventually processed: the poll finds it and processRun takes it out of
\* PENDING.
C19_PendingRunIsPolled ==
    (runStatus = "PENDING" /\ qRunsPending = 0) ~> (runStatus # "PENDING")

\* The poll goroutine has registered the run and stored RUNNING for it
\* without any run.pending event.
C19_Witness ==
    /\ qRunsPending = 0
    /\ runStatus = "RUNNING"
    /\ activeRuns = "poll"
    /\ opc["run"] = "idle"

\* C20: a task whose row is QUEUED in the store and for which no task.ready
\* message is in the queue (the publish failed) is eventually taken out of
\* QUEUED by the worker's processTask, which the poll calls for every listed
\* task, and its executor is run when its type has one.
C20_QueuedTaskIsPolled ==
    \A t \in TaskIDs :
        (t \in DOMAIN tasks /\ tasks[t].status = "QUEUED" /\ t \notin qTasksReady)
            ~> /\ t \in DOMAIN tasks
               /\ tasks[t].status # "QUEUED"
               /\ tasks[t].type \in NewRegistry => executions[t] # <<>>

\* The dispatch of task 1 has ended without a task.ready message in the
\* queue, the tasks.ready consumer is idle, and the poll goroutine, the only
\* one to have started the task, is about to execute it.
C20_Witness ==
    /\ 1 \in DOMAIN tasks
    /\ \A th \in OThreads : opc[th] # "created"
    /\ 1 \notin qTasksReady
    /\ wpc["consumer"] = "idle"
    /\ wpc["poll"] = "running"
    /\ wtask["poll"].id = 1
    /\ started[1] = 1
    /\ executions[1] = <<>>
    /\ Len(tasks) = 1

\* C21: every delivery whose handleDelivery has returned was settled by
\* exactly one call: Ack iff the handler was called and returned no error,
\* Nack without requeue iff the body failed to parse (the handler was then
\* not called), Nack with requeue iff the handler returned an error; a
\* delivery still in its handler has not been settled.
C21_SettledExactlyOnce ==
    \A i \in DOMAIN deliveries :
        LET d == deliveries[i]
        IN  IF d.done
            THEN /\ Len(d.calls) = 1
                 /\ d.calls[1] = "ack" <=> (d.invoked /\ ~d.handlerErr)
                 /\ d.calls[1] = "nack" <=> (d.parseErr /\ ~d.invoked)
                 /\ d.calls[1] = "nack_requeue" <=> (d.invoked /\ d.handlerErr)
            ELSE d.calls = <<>> /\ d.invoked

\* A delivery with a malformed body and one whose handler failed have both
\* been settled.
C21_Witness ==
    /\ Len(deliveries) = 2
    /\ deliveries[1].parseErr /\ deliveries[1].calls = <<"nack">>
    /\ deliveries[2].handlerErr /\ deliveries[2].calls = <<"nack_requeue">>

\* C27: a consumer waiting on ReconnectNotify is woken once the connection
\* is re-established and consumes again.
C27_WaitingConsumersResume ==
    \A c \in Consumers : (cpc[c] = "waiting") ~> (connected /\ cpc[c] = "consuming")

\* C22: with exponential backoff, initial 1 s and max 10 s the delays of
\* attempts 1..6 are 1, 2, 4, 8, 10, 10 s; in general the delay is the
\* initial delay (default 1 s) doubled per attempt and clipped at the max
\* delay (default 30 s), it does not decrease with the attempt number and
\* never exceeds the max delay; under fixed or unknown backoff it is the
\* initial delay at every attempt.
C22_BackoffDelays ==
    (bkDelay # -1 /\ ~bkPolicy.isNil) =>
        LET initialDelay == IF bkPolicy.InitialDelayMs <= 0 THEN Second
                            ELSE bkPolicy.InitialDelayMs
            maxDelay == IF bkPolicy.MaxDelayMs <= 0 THEN 30 * Second
                        ELSE bkPolicy.MaxDelayMs
            pow2[n \in 0..MaxAttempt + 1] == IF n = 0 THEN 1 ELSE 2 * pow2[n - 1]
            clipped == IF initialDelay * pow2[bkAttempt - 1] > maxDelay THEN maxDelay
                       ELSE initialDelay * pow2[bkAttempt - 1]
        IN  /\ bkDelay <= maxDelay
            /\ \A a \in 1..bkAttempt : calculateBackoff(a, bkPolicy) <= bkDelay
            /\ bkPolicy.Backoff = "exponential" => bkDelay = clipped
            /\ (bkPolicy.Backoff = "exponential" /\ bkPolicy.InitialDelayMs = 1000
                  /\ bkPolicy.MaxDelayMs = 10000 /\ bkAttempt <= 6)
                 => bkDelay = <<1, 2, 4, 8, 10, 10>>[bkAttempt] * Second
            /\ bkPolicy.Backoff # "exponential" => bkDelay = initialDelay

\* C23: after a step was skipped the run goes on by itself: a node that is
\* neither completed, running nor failed and whose dependencies are all
\* completed in the run's RunState eventually has a task or is completed,
\* and a RUNNING run whose executable nodes are all completed is eventually
\* SUCCEEDED.
C23_SkipMakesProgress ==
    /\ \A n \in {"A", "B", "C", "D", "E", "start", "end"} :
          (/\ activeRuns # "none"
           /\ runStatus = "RUNNING"
           /\ n \in GetExecutableNodes(flow)
           /\ n \notin rs[activeRuns].completed \cup rs[activeRuns].running
                          \cup rs[activeRuns].failed
           /\ DependsOn(flow, n) \subseteq rs[activeRuns].completed)
             ~> (\/ \E i \in DOMAIN tasks : tasks[i].step = n
                 \/ \E th \in OThreads : n \in rs[th].completed)
    /\ (/\ activeRuns # "none"
        /\ runStatus = "RUNNING"
        /\ GetExecutableNodes(flow) \subseteq rs[activeRuns].completed)
          ~> (runStatus = "SUCCEEDED")

\* C24: two handlers working on the same RunState never both obtain the same
\* node from GetReadySteps and dispatch it: no two goroutines are both
\* between taskRepo.Create and MarkStepRunning of a task for the same node.
C24_ReadySelectionAtomic ==
    \A th1, th2 \in OThreads :
        (/\ th1 # th2
         /\ oref[th1] = oref[th2]
         /\ opc[th1] = "created"
         /\ opc[th2] = "created")
            => ocur[th1].node # ocur[th2].node

\* C25: a run registered in the orchestrator's active set has a non-terminal
\* status in the store.
C25_ActiveRunNotTerminal ==
    activeRuns # "none" => runStatus \notin RunTerminal

\* C26: a delivery whose event names a run or a task that is not in the
\* store is acknowledged, and so not requeued, by the run.pending handler
\* (run absent), the task.completed handler (run or task absent) and the
\* worker's task.ready handler (task absent).
C26_NotFoundIsAcked ==
    \A i \in DOMAIN deliveries :
        LET d == deliveries[i]
            absent == IF d.queue = "runs.pending" THEN ~d.ev.runFound
                      ELSE IF d.queue = "tasks.completed"
                           THEN ~d.ev.runFound \/ ~d.ev.taskFound
                      ELSE ~d.ev.taskFound
        IN  absent => d.calls = <<"ack">>

\* The last step of every branch of the parallel step whose join node is j,
\* as FlowSpec declares them.
LastBranchNodes(spec, j) ==
    UNION { { fullID(spec[i].id, spec[i].branches[b].id,
                     spec[i].branches[b].steps[Len(spec[i].branches[b].steps)].id) :
                b \in DOMAIN spec[i].branches } :
            i \in { k \in DOMAIN spec : spec[k].type = "parallel" /\ joinID(spec[k].id) = j } }

\* C29: a call of GetReadyNodes adds a join node to completed only if the
\* last node of every branch of its parallel step is in completed, it does
\* add the join whenever they all are, and it never returns a join node.
C29_JoinCompletedExactly ==
    [][(rcalled' /\ ~rcalled) =>
          \A j \in JoinNodes(rflow) :
              /\ j \in rcompleted' \ rcompleted => LastBranchNodes(rflow, j) \subseteq rcompleted
              /\ LastBranchNodes(rflow, j) \subseteq rcompleted => j \in rcompleted'
              /\ j \notin rready']_vars

\* GetReadyNodes has returned for the flow with two branches, both of whose
\* last nodes are completed, and the join is completed and not returned.
C29_Witness ==
    /\ rcalled
    /\ rflow = FlowJoin
    /\ {"par.a.s2", "par.b.s1"} \subseteq rcompleted
    /\ "par.join" \in rcompleted
    /\ "par.join" \notin rready
    /\ "par.join" \notin rrunning


\* C28: the completed map of a RunState is written only by a goroutine that
\* holds RunState.mu for writing, and while a goroutine writes it no other
\* goroutine is inside a method that reads or writes the maps; this covers
\* the store completed[join] = true that GetReadyNodes makes during
\* GetReadySteps.
C28_CompletedWriteExclusive ==
    \A g \in Goroutines :
        gpc[g] \in {"join_write", "mark_completed"} =>
            /\ muWriter = g
            /\ \A h \in Goroutines \ {g} : gpc[h] = "idle"


\* C30: a task whose row is RUNNING eventually has a row that is SUCCEEDED
\* or FAILED, also when the worker that persisted RUNNING stopped before it
\* persisted the outcome and a worker is running again.
C30_RunningTaskFinishes ==
    \A t \in TaskIDs :
        (t \in DOMAIN tasks /\ tasks[t].status = "RUNNING")
            ~> (t \in DOMAIN tasks /\ tasks[t].status \in TaskTerminal)


\* The steps of the handler of a task.completed delivery after the delivery
\* was taken.
taskHandlerStep ==
    \/ restoreRunState
    \/ processTaskCompleted
    \/ \E n \in NodeIDs(flow) : dispatchStep("task", n)
    \/ publishTaskReady("task", TRUE)
    \/ dispatchDone("task")

\* C31: the handler of a task.completed delivery that was taken after the
\* run was finalized (SUCCEEDED or FAILED stored by completeRun) leaves the
\* run row, the task rows and the active set as they are.
C31_LateEventChangesNothing ==
    [][(lateFinal /\ taskHandlerStep) =>
          /\ runStatus' = runStatus
          /\ tasks' = tasks
          /\ activeRuns' = activeRuns]_vars


C33_InitializationFailure ==
    [][(~Validate(flow) \/ BuildDAG(flow).err # "") =>
          /\ activeRuns' = "none"
          /\ tasks' = <<>>
          /\ \A th \in {"run", "poll"} :
                processRun(th) =>
                    /\ runStatus' = "FAILED"
                    /\ runError'.prefix = "initialization failed"
          /\ runStatus = "FAILED" =>
                /\ runStatus' = "FAILED"
                /\ runError' = runError
                /\ handleRunPending => opc'["run"] = "idle"]_vars

\* The run was failed by Initialize and the returned run.pending delivery
\* has been taken again and acknowledged.
C33_Witness ==
    /\ ~Validate(flow) \/ BuildDAG(flow).err # ""
    /\ runStatus = "FAILED"
    /\ runError.prefix = "initialization failed"
    /\ qRunsPending = 0
    /\ opc["run"] = "idle"


\* A worker goroutine is inside executeWithRetry for the task.
inRetryLoop(t) == \E w \in WThreads : wpc[w] = "running" /\ wtask[w].id = t

\* C34: a task row that has left QUEUED never becomes QUEUED again, the
\* retries of executeWithRetry included; and while a worker goroutine is in
\* executeWithRetry for a task, neither the polling loop nor a task.ready
\* delivery makes another goroutine load the task for processing.
C34_RetryKeepsRunning ==
    [][\A t \in DOMAIN tasks :
          /\ tasks[t].status # "QUEUED" => tasks'[t].status # "QUEUED"
          /\ inRetryLoop(t) =>
                \A w \in WThreads :
                    wpc[w] = "idle" => ~(wpc'[w] = "loaded" /\ wtask'[w].id = t)]_vars

\* The polling loop's goroutine is before the second attempt of task 1, the
\* row is RUNNING with attempt 2, and the task.ready message of the task has
\* been taken by the consumer without a second start.
C34_Witness ==
    /\ wpc["poll"] = "running"
    /\ wtask["poll"].id = 1
    /\ wtask["poll"].attempt = 2
    /\ tasks[1].status = "RUNNING"
    /\ tasks[1].attempt = 2
    /\ 1 \notin qTasksReady
    /\ wpc["consumer"] = "idle"
    /\ started[1] = 1


\* C35: an event is published only with its store transition persisted: a
\* run.pending event names a run whose row is inserted, a task.ready event
\* names a task whose row was inserted before, and a task.completed event
\* with status S names a task whose row has the terminal status S.
C35_PublishAfterPersist ==
    [][/\ \A r \in runsPublished' \ runsPublished : r \in DOMAIN runs'
       /\ \A t \in qTasksReady' \ qTasksReady : t \in DOMAIN tasks
       /\ \A m \in BagToSet(qTasksCompleted') :
             CopiesIn(m, qTasksCompleted') > CopiesIn(m, qTasksCompleted) =>
                 /\ m.task \in DOMAIN tasks'
                 /\ m.status \in TaskTerminal
                 /\ tasks'[m.task].status = m.status]_vars

\* The scheduler has published run.pending for a run it created, the worker
\* has published task.completed for the first task and the orchestrator
\* task.ready for the second.
C35_Witness ==
    /\ runsPublished # {}
    /\ published[1] = 1
    /\ 2 \in qTasksReady

\* C36: a tick at time t that updates a schedule with a cron expression that
\* parses or a positive interval persists a next_due_at strictly later than
\* t; a tick creates a run only for a schedule whose persisted next_due_at
\* is not after the tick's time, and never a second run of a schedule for
\* the same tick time, however far in the past next_due_at was.
C36_NextDueAfterTick ==
    [][/\ \A id \in SchedIDs :
             schedules'[id] # schedules[id] =>
                 /\ schedules'[id].nextDueAt > stime["s1"]
                 /\ schedules'[id].nextDueAt > schedules[id].nextDueAt
       /\ Len(runs') > Len(runs) =>
             LET r == runs'[Len(runs')]
             IN  /\ Len(runs') = Len(runs) + 1
                 /\ r.createdAt = stime["s1"]
                 /\ schedules[r.sched].nextDueAt <= r.createdAt
                 /\ \A i \in DOMAIN runs :
                       runs[i].sched = r.sched => runs[i].createdAt < r.createdAt]_vars

\* Schedule 1 was due three ticks before the tick at time 0, which created
\* its only run and moved next_due_at past 0; the tick at time 1 has gone
\* through its batch without a second run of schedule 1.
C36_Witness ==
    /\ spc["s1"] = "process"
    /\ sbatch["s1"] = <<>>
    /\ stime["s1"] = 1
    /\ schedules[1].nextDueAt > 0
    /\ schedules[1].lastRunID # 0
    /\ \E i \in DOMAIN runs : runs[i].sched = 1 /\ runs[i].due = 0 - 3 /\ runs[i].createdAt = 0
    /\ Cardinality({ i \in DOMAIN runs : runs[i].sched = 1 }) = 1

\* C37: BuildDAG returns ErrCyclicDependency exactly when some node reaches
\* itself along the dependency edges; when it returns no error, Order holds
\* every node exactly once and every node comes after all the nodes it
\* depends on.
C37_TopologicalOrder ==
    rdag # NoDAG =>
        LET succ(S) == { e[2] : e \in { e2 \in Edges(rflow) : e2[1] \in S } }
            RECURSIVE reach(_)
            reach(S) == IF succ(S) \subseteq S THEN S ELSE reach(S \cup succ(S))
            cyclic == \E n \in NodeIDs(rflow) : n \in reach(succ({n}))
        IN  /\ rdag.err = "ErrCyclicDependency" <=> cyclic
            /\ rdag.err = "" =>
                  /\ Len(rdag.Order) = Cardinality(NodeIDs(rflow))
                  /\ Range(rdag.Order) = NodeIDs(rflow)
                  /\ \A i \in DOMAIN rdag.Order :
                        \A d \in DependsOn(rflow, rdag.Order[i]) :
                            \E j \in 1..(i - 1) : rdag.Order[j] = d

\* BuildDAG sorted the six nodes of a parallel step with two branches and a
\* step that depends on it.
C37_Witness ==
    /\ rdag # NoDAG
    /\ rdag.err = ""
    /\ Len(rdag.Order) = 6
    /\ \E i \in DOMAIN rflow : rflow[i].type = "http" /\ rflow[i].dependsOn # <<>>

\* C38: a schedule whose flow has no version is skipped: its row never
\* changes, no run of the flow is ever created or published, and the step
\* that skips it changes neither the runs, nor what is published, nor any
\* schedule row.
C38_NoVersionSkipped ==
    [][/\ \A id \in SchedIDs :
             ~flowHasVersion[schedules[id].flow] =>
                 /\ schedules'[id] = schedules[id]
                 /\ \A i \in DOMAIN runs' : runs'[i].flow # schedules[id].flow
                 /\ \A i \in runsPublished' : runs'[i].flow # schedules[id].flow
       /\ \A p \in SchedProcs :
             (/\ spc[p] = "process"
              /\ sbatch[p] # <<>>
              /\ sbatch'[p] # sbatch[p]
              /\ ~flowHasVersion[Head(sbatch[p]).flow]) =>
                 /\ runs' = runs
                 /\ runsPublished' = runsPublished
                 /\ schedules' = schedules]_vars

\* A tick has gone through its batch, which held schedule 2, due at 0 and
\* with a flow that has no version, and created the run of schedule 1.
C38_Witness ==
    /\ ~flowHasVersion[2]
    /\ schedules[2].nextDueAt = 0
    /\ schedules[2].lastRunID = 0
    /\ \E p \in SchedProcs : spc[p] = "process" /\ sbatch[p] = <<>>
    /\ \E i \in DOMAIN runs : runs[i].sched = 1 /\ i \in runsPublished

\* C39: a tick leaves its loop only when the batch is exhausted, and a step
\* of the loop, whether processSchedule returned an error or not, takes
\* only the schedule it processed off the batch.
C39_ErrorDoesNotAbortBatch ==
    [][\A p \in SchedProcs :
          /\ (spc[p] # "idle" /\ spc'[p] = "idle") => sbatch[p] = <<>>
          /\ (spc[p] # "idle" /\ sbatch'[p] # sbatch[p]) => sbatch'[p] = Tail(sbatch[p])]_vars

\* The only process that ever held the lock has gone through a batch of two
\* schedules: the update of the first one's row failed after its run was
\* created, and the second one's run was created and its row updated.
C39_Witness ==
    \E p \in SchedProcs :
        /\ spc[p] = "process"
        /\ sbatch[p] = <<>>
        /\ \A q \in SchedProcs \ {p} : ~hasLock[q]
        /\ \E i, j \in DOMAIN runs :
              /\ i < j
              /\ runs[i].sched # runs[j].sched
              /\ runs[i].createdAt = stime[p]
              /\ runs[j].createdAt = stime[p]
              /\ CalculateNextDue(schedules[runs[i].sched], stime[p]).ok
              /\ schedules[runs[i].sched].lastRunID = 0
              /\ schedules[runs[j].sched].lastRunID = j

\* C40: in every RunState the completed, running and failed sets are
\* pairwise disjoint.
C40_StepSetsDisjoint ==
    \A th \in OThreads :
        /\ rs[th].completed \cap rs[th].running = {}
        /\ rs[th].completed \cap rs[th].failed = {}
        /\ rs[th].running \cap rs[th].failed = {}

====
